---- MODULE Spec2Model ----
(***************************************************************************)
(* Verification model of the AMSS orchestration core:                      *)
(*   - RealTimeOptimizer  (lib/realtime-optimizer.ts, lines 91-701)        *)
(*   - RefinementEngine   (lib/realtime-optimizer.ts, lines 789-1308)      *)
(*   - AMSSEngine.iterativeRefinement (lib/amss-engine.ts)                 *)
(*                                                                         *)
(* Numbers of the source in [0,1] are scaled: metric values, thresholds    *)
(* and qualities by 100 (0.85 is 85), scores of the generation pipeline by *)
(* 1000 (0.85 is 850).                                                     *)
(*                                                                         *)
(* The specifications share the module; each leaves the variables of the   *)
(* other components at their initial value:                                *)
(*   SpecThresholds  the pure function evaluateMetric                      *)
(*   Spec            the optimizer: timers, cycles, requests of route.ts   *)
(*   SpecCycles      the optimizer driven by its timer alone               *)
(*   SpecHistory     the optimizer after a long run                        *)
(*   SpecRefine      one call of RefinementEngine.refineImage              *)
(*   SpecLoops       refineImage next to AMSSEngine.iterativeRefinement    *)
(***************************************************************************)
EXTENDS Integers, Sequences, FiniteSets, TLC

VARIABLES
    \* ---- evaluateMetric probe (SpecThresholds)
    evalMetric,      \* metricName handed to evaluateMetric
    evalValue,       \* value handed to evaluateMetric
    evalOutcome,     \* FeedbackLoop | null returned
    prevValue,       \* the value of the previous evaluation of the same metric
    prevOutcome,     \* and its outcome
    \* ---- RealTimeOptimizer (Spec, SpecHistory)
    zai,                  \* this.zai is set (initialize() has completed)
    initPending,          \* requests of route.ts awaiting ZAI.create() inside initialize()
    timers,               \* setInterval timers created so far (none is ever cleared)
    config,               \* this.config
    isOptimizing,         \* this.isOptimizing
    cycles,               \* runOptimizationCycle calls in flight, by cycle number
    cycleCount,           \* number of runOptimizationCycle calls made so far
    feedbackLoops,        \* this.feedbackLoops: id -> FeedbackLoop
    optimizationHistory,  \* this.optimizationHistory
    metricsHistory,       \* this.metricsHistory
    predictionModel,      \* this.predictionModel
    faults,               \* calls that threw so far (bounded by MaxFaults)
    recorded,             \* history variable: every result recorded since the last clear
    \* ---- RefinementEngine (SpecRefine, SpecLoops)
    refinement,           \* the locals of the refineImage call
    returned,             \* what the call returned (Null before it returns)
    qualityHistory,       \* this.qualityHistory
    refinementHistory,    \* this.refinementHistory
    \* ---- AMSSEngine.iterativeRefinement (SpecLoops)
    pipeline,             \* the locals of the iterativeRefinement call
    concurrent,           \* the locals of a second refineImage call on the same engine
    concurrentReturned,   \* what the second call returned, Null before
    selection,            \* selectBestTechnique: the arguments, and the result by strategy
    \* ---- AMSSEngine.generateEnsemble and adaptiveFusion (SpecEnsemble)
    generation,           \* the locals of the generateImage call, phases 2 and 3
    \* ---- StyleTransferEngine (SpecStyle)
    styleCall,            \* the locals of the transferStyle call in flight
    fusionCache,          \* this.fusionCache: cache key -> FusionResult
    transferred,          \* history: the last request and what it was returned
    transfers,            \* history: how many transferStyle calls were made
    \* ---- requests that only read (SpecRecommend)
    recommendations,      \* whether getRecommendations() was called, and what it last returned
    \* ---- the generate and analyze routes of the AMSS engine (SpecRoutes)
    amssZai,              \* amssEngine.zai is set
    amssRequest,          \* the POST request being handled, or the last one answered
    amssRequests,         \* history: how many requests were made
    \* ---- the SemanticAnalyzer singleton (SpecAnalyzer)
    analysisCache,        \* SemanticAnalyzer.analysisCache: cache key -> result
    analysis,             \* the analyzeImage call in flight, or the last one returned
    analysed,             \* history: the analyzeImage calls that returned, in order
    analyzerBackend,      \* history: backend calls made by the analyzer so far
    cacheStats            \* what getCacheStats() said last, and how many clearCache() calls

thresholdVars == <<evalMetric, evalValue, evalOutcome, prevValue, prevOutcome>>

optimizerVars ==
    <<zai, initPending, timers, config, isOptimizing, cycles, cycleCount,
      feedbackLoops, optimizationHistory, metricsHistory, predictionModel,
      faults, recorded>>

sessionVars == <<concurrent, concurrentReturned>>

refineVars ==
    <<refinement, returned, qualityHistory, refinementHistory, pipeline, sessionVars, selection>>

fusionVars == <<generation, styleCall, fusionCache, transferred, transfers>>

analyzerVars == <<analysisCache, analysis, analysed, analyzerBackend, cacheStats>>

requestVars == <<recommendations, amssZai, amssRequest, amssRequests, analyzerVars>>

vars == <<thresholdVars, optimizerVars, refineVars, fusionVars, requestVars>>

(***************************************************************************)
(* Bounds of the model.                                                    *)
(***************************************************************************)
\* metric values are the multiples of 0.05 from 0 to MaxLevel * 0.05
MaxLevel == 20

Levels == {5 * k : k \in 0..MaxLevel}

Null == [null |-> TRUE]

Max(a, b) == IF a >= b THEN a ELSE b
Min(a, b) == IF a <= b THEN a ELSE b

(***************************************************************************)
(* RealTimeOptimizer: metric table, thresholds, actions.                   *)
(***************************************************************************)
\* The categories and, inside each, the metrics in the key order of the
\* object literals of collectMetrics: the order Object.entries walks them.
Categories == <<"performance", "quality", "efficiency", "userSatisfaction">>

CategoryMetrics(category) ==
    CASE category = "performance" ->
            <<"processingSpeed", "memoryUsage", "responseTime", "throughput", "scalability">>
      [] category = "quality" ->
            <<"accuracy", "consistency", "robustness", "fidelity", "innovation">>
      [] category = "efficiency" ->
            <<"resourceUtilization", "energyEfficiency", "costEffectiveness",
              "timeEfficiency", "scalability">>
      [] category = "userSatisfaction" ->
            <<"engagement", "retention", "satisfaction", "feedbackScore", "recommendation">>

MetricNames ==
    UNION {{CategoryMetrics(Categories[c])[i] : i \in 1..Len(CategoryMetrics(Categories[c]))}
           : c \in 1..Len(Categories)}

Thr(c, l, m) == [critical |-> c, low |-> l, medium |-> m]

\* a name outside the table, to exercise the fallback of the two lookups
UnknownMetric == "latencyJitter"

getThresholds(metricName) ==
    CASE metricName = "processingSpeed"     -> Thr(30, 50, 70)
      [] metricName = "memoryUsage"         -> Thr(80, 60, 40)
      [] metricName = "responseTime"        -> Thr(30, 50, 70)
      [] metricName = "throughput"          -> Thr(40, 60, 80)
      [] metricName = "scalability"         -> Thr(40, 60, 70)
      [] metricName = "accuracy"            -> Thr(50, 70, 80)
      [] metricName = "consistency"         -> Thr(60, 75, 85)
      [] metricName = "robustness"          -> Thr(50, 65, 75)
      [] metricName = "fidelity"            -> Thr(60, 75, 80)
      [] metricName = "innovation"          -> Thr(40, 60, 70)
      [] metricName = "resourceUtilization" -> Thr(80, 60, 40)
      [] metricName = "energyEfficiency"    -> Thr(40, 60, 70)
      [] metricName = "costEffectiveness"   -> Thr(50, 65, 80)
      [] metricName = "timeEfficiency"      -> Thr(40, 60, 75)
      [] metricName = "engagement"          -> Thr(40, 60, 70)
      [] metricName = "retention"           -> Thr(50, 65, 80)
      [] metricName = "satisfaction"        -> Thr(50, 65, 75)
      [] metricName = "feedbackScore"       -> Thr(40, 60, 70)
      [] metricName = "recommendation"      -> Thr(50, 65, 80)
      [] OTHER                              -> Thr(30, 50, 70)

Act(t, p, i) == [type |-> t, priority |-> p, estimatedImpact |-> i]

generateOptimizationAction(trigger, type) ==
    CASE trigger.metric = "processingSpeed"     -> Act("parameter_adjustment", 9, 30)
      [] trigger.metric = "memoryUsage"         -> Act("resource_allocation", 8, 25)
      [] trigger.metric = "responseTime"        -> Act("algorithm_tuning", 8, 20)
      [] trigger.metric = "accuracy"            -> Act("model_switch", 9, 35)
      [] trigger.metric = "consistency"         -> Act("technique_change", 7, 20)
      [] trigger.metric = "innovation"          -> Act("algorithm_tuning", 6, 15)
      [] trigger.metric = "resourceUtilization" -> Act("resource_allocation", 8, 30)
      [] trigger.metric = "energyEfficiency"    -> Act("parameter_adjustment", 7, 20)
      [] trigger.metric = "engagement"          -> Act("technique_change", 8, 25)
      [] trigger.metric = "satisfaction"        -> Act("parameter_adjustment", 9, 30)
      [] OTHER                                  -> Act("parameter_adjustment", 5, 10)

\* the result a loop carries from its creation until it is executed
InitialResult ==
    [success |-> FALSE, improvement |-> 0, sideEffects |-> <<>>]

\* id stands for `feedback_${Date.now()}_${random}`, size for feedbackLoops.size
createFeedbackLoop(metric, currentValue, threshold, type, severity, id, size) ==
    LET trigger == [metric |-> metric, threshold |-> threshold,
                    currentValue |-> currentValue, trend |-> "declining",
                    severity |-> severity]
    IN  [id |-> id, type |-> type, trigger |-> trigger,
         action |-> generateOptimizationAction(trigger, type),
         result |-> InitialResult, iteration |-> size + 1]

\* a cascade that also takes a value equal to a threshold
evaluateMetricAtThreshold(metricName, value, type, id, size) ==
    LET thresholds == getThresholds(metricName) IN
    IF value <= thresholds.critical
    THEN createFeedbackLoop(metricName, value, thresholds.critical, type, "critical", id, size)
    ELSE IF value <= thresholds.low
    THEN createFeedbackLoop(metricName, value, thresholds.low, type, "high", id, size)
    ELSE IF value <= thresholds.medium
    THEN createFeedbackLoop(metricName, value, thresholds.medium, type, "medium", id, size)
    ELSE Null

evaluateMetric(metricName, value, type, id, size) ==
    LET thresholds == getThresholds(metricName) IN
    IF value < thresholds.critical
    THEN createFeedbackLoop(metricName, value, thresholds.critical, type, "critical", id, size)
    ELSE IF value < thresholds.low
    THEN createFeedbackLoop(metricName, value, thresholds.low, type, "high", id, size)
    ELSE IF value < thresholds.medium
    THEN createFeedbackLoop(metricName, value, thresholds.medium, type, "medium", id, size)
    ELSE Null

(***************************************************************************)
(* RealTimeOptimizer: one optimization cycle.                              *)
(***************************************************************************)
\* bounds of the optimizer model
MaxCycles == 2          \* runOptimizationCycle calls in one behaviour
MaxTimers == 2          \* setInterval timers in one behaviour
MaxInitPending == 2     \* requests awaiting initialize() at the same time
MaxFaults == 1          \* calls that throw in one behaviour
MaxPerCycleArg == 4     \* largest maxOptimizationsPerCycle given to the constructor
HistoryPrefill == 98    \* results already recorded when SpecHistory starts

\* this.optimizationHistory keeps the last 100 results
HistoryCap == 100

\* Math.random() of simulateOptimization: randomFactor = 0.8 + random * 0.4,
\* in hundredths.  One draw, the middle of the range: estimatedImpact is at
\* least 0.1, so every draw gives a positive improvement, and nothing in the
\* optimizer reads more of an improvement than that.
RandomFactors == {100}

\* what awaiting simulateOptimization can end as: an improvement or a throw
ExecutionOutcomes ==
    {[throws |-> TRUE, factor |-> 0]} \cup {[throws |-> FALSE, factor |-> f] : f \in RandomFactors}

Perf(a, b, c, d, e) ==
    [processingSpeed |-> a, memoryUsage |-> b, responseTime |-> c, throughput |-> d,
     scalability |-> e]
Qual(a, b, c, d, e) ==
    [accuracy |-> a, consistency |-> b, robustness |-> c, fidelity |-> d, innovation |-> e]
Effi(a, b, c, d, e) ==
    [resourceUtilization |-> a, energyEfficiency |-> b, costEffectiveness |-> c,
     timeEfficiency |-> d, scalability |-> e]
User(a, b, c, d, e) ==
    [engagement |-> a, retention |-> b, satisfaction |-> c, feedbackScore |-> d,
     recommendation |-> e]
Metrics(p, q, e, u) ==
    [performance |-> p, quality |-> q, efficiency |-> e, userSatisfaction |-> u]

\* collectMetrics draws every metric as base + Math.random() * span: the two
\* samples are the draw with every Math.random() = 0 and a draw with every
\* Math.random() close to 1.
SampleLowest ==
    Metrics(Perf(70, 40, 60, 80, 75), Qual(80, 85, 75, 80, 70),
            Effi(60, 70, 80, 75, 80), User(70, 80, 75, 70, 80))
SampleHighest ==
    Metrics(Perf(95, 75, 85, 95, 95), Qual(95, 95, 95, 95, 95),
            Effi(85, 85, 95, 95, 95), User(95, 95, 95, 95, 95))

collectMetrics == {SampleLowest, SampleHighest}

\* The drawing is a stand-in for measured values ("Simulate metric
\* collection"): OptimizationMetrics values outside the drawn ranges, on
\* which the cycle is explored in SpecCycles.  A degraded system with six
\* breaches of five different priorities, and a system on which no metric
\* is below any threshold.
SampleDegraded ==
    Metrics(Perf(20, 90, 40, 50, 95), Qual(60, 80, 95, 95, 50),
            Effi(85, 85, 95, 95, 95), User(95, 95, 95, 95, 95))
SampleQuiet ==
    Metrics(Perf(95, 90, 85, 95, 95), Qual(95, 95, 95, 95, 95),
            Effi(85, 85, 95, 95, 95), User(95, 95, 95, 95, 95))

MeasuredMetrics == collectMetrics \cup {SampleDegraded, SampleQuiet}

\* the (category, metric) pairs in the order the two nested loops of
\* identifyOptimizationOpportunities visit them
RECURSIVE DetectionFrom(_, _)
DetectionFrom(c, i) ==
    IF c > Len(Categories) THEN <<>>
    ELSE IF i > Len(CategoryMetrics(Categories[c])) THEN DetectionFrom(c + 1, 1)
    ELSE <<[category |-> Categories[c], metric |-> CategoryMetrics(Categories[c])[i]]>>
         \o DetectionFrom(c, i + 1)

DetectionOrder == DetectionFrom(1, 1)

\* the loops pushed by the two nested loops, in detection order; the k-th
\* evaluation of cycle number `no` creates the loop id <<no, k>>
RECURSIVE DetectFrom(_, _, _, _)
DetectFrom(metrics, k, no, size) ==
    IF k > Len(DetectionOrder) THEN <<>>
    ELSE LET e == DetectionOrder[k]
             opportunity == evaluateMetric(e.metric, metrics[e.category][e.metric],
                                           e.category, <<no, k>>, size)
         IN  (IF opportunity # Null THEN <<opportunity>> ELSE <<>>)
             \o DetectFrom(metrics, k + 1, no, size)

\* a sort that puts a loop before the earlier loops of its own priority
InsertByPriorityUnstable(x, sorted) ==
    LET k == Cardinality({i \in 1..Len(sorted) :
                              sorted[i].action.priority > x.action.priority})
    IN  SubSeq(sorted, 1, k) \o <<x>> \o SubSeq(sorted, k + 1, Len(sorted))

\* Array.prototype.sort with (a, b) => b.action.priority - a.action.priority:
\* descending priority, stable (ECMAScript 2019)
InsertByPriority(x, sorted) ==
    LET k == Cardinality({i \in 1..Len(sorted) :
                              sorted[i].action.priority >= x.action.priority})
    IN  SubSeq(sorted, 1, k) \o <<x>> \o SubSeq(sorted, k + 1, Len(sorted))

RECURSIVE SortByPriority(_)
SortByPriority(s) ==
    IF s = <<>> THEN <<>>
    ELSE InsertByPriority(s[Len(s)], SortByPriority(SubSeq(s, 1, Len(s) - 1)))

identifyOptimizationOpportunities(metrics, no, size) ==
    SortByPriority(DetectFrom(metrics, 1, no, size))

\* opportunities.slice(0, maxOptimizationsPerCycle), for a count >= 0
SelectOptimizations(opportunities, maxPerCycle) ==
    SubSeq(opportunities, 1, Min(maxPerCycle, Len(opportunities)))

calculateSideEffects(action) ==
    CASE action.type = "parameter_adjustment" ->
            <<"Parameter adjustment may affect other metrics">>
      [] action.type = "model_switch" ->
            <<"Model switch may increase processing time",
              "Model switch may increase memory usage">>
      [] action.type = "technique_change" ->
            <<"Technique change may require adaptation period">>
      [] action.type = "resource_allocation" ->
            <<"Resource reallocation may affect other processes">>
      [] action.type = "algorithm_tuning" ->
            <<"Algorithm tuning may affect consistency">>
      [] OTHER -> <<>>

\* simulateOptimization: estimatedImpact * randomFactor (in 1/10000)
simulateOptimization(action, factor) == action.estimatedImpact * factor

\* a catch block that reports the estimate of the action it could not run
executeOptimizationKeepsEstimate(feedbackLoop, outcome) ==
    [success |-> ~outcome.throws,
     improvement |-> simulateOptimization(feedbackLoop.action, 100),
     sideEffects |-> calculateSideEffects(feedbackLoop.action),
     loop |-> feedbackLoop.id]

\* The OptimizationResult executeOptimization builds.  Field loop names the
\* feedback loop the result object was built for: it gives the result the
\* identity the object has in the program.  newMetrics (a fresh sample) and
\* processingTime (a clock difference) are left out.
executeOptimization(feedbackLoop, outcome) ==
    IF ~outcome.throws
    THEN [success |-> TRUE,
          improvement |-> simulateOptimization(feedbackLoop.action, outcome.factor),
          sideEffects |-> calculateSideEffects(feedbackLoop.action),
          loop |-> feedbackLoop.id]
    ELSE [success |-> FALSE,
          improvement |-> 0,
          sideEffects |-> <<"Optimization failed">>,
          loop |-> feedbackLoop.id]

\* this.feedbackLoops.set(id, loop)
MapSet(map, id, loop) ==
    [k \in DOMAIN map \cup {id} |-> IF k = id THEN loop ELSE map[k]]

MapDelete(map, id) == [k \in DOMAIN map \ {id} |-> map[k]]

EmptyMap == [k \in {} |-> Null]

\* a cap that keeps the oldest results: slice(0, 100) for slice(-100)
recordOptimizationResultKeepsOldest(history, result) ==
    LET pushed == Append(history, result) IN
    IF Len(pushed) > HistoryCap THEN SubSeq(pushed, 1, HistoryCap) ELSE pushed

\* recordOptimizationResult: push, then keep the last HistoryCap results
recordOptimizationResult(history, result) ==
    LET pushed == Append(history, result) IN
    IF Len(pushed) > HistoryCap
    THEN SubSeq(pushed, Len(pushed) - HistoryCap + 1, Len(pushed))
    ELSE pushed

DefaultConfig ==
    [enableRealTimeOptimization |-> TRUE,
     maxOptimizationsPerCycle |-> 3,
     adaptiveLearning |-> TRUE]

\* the configurations `new RealTimeOptimizer(config)` is tried with
ConstructorConfigs ==
    {[DefaultConfig EXCEPT !.maxOptimizationsPerCycle = m, !.adaptiveLearning = a] :
        m \in 0..MaxPerCycleArg, a \in BOOLEAN}

\* the optimizer as the constructor leaves it; the exported singleton is
\* `new RealTimeOptimizer()`
RealTimeOptimizer(constructorConfig) ==
    /\ zai = FALSE
    /\ initPending = 0
    /\ timers = 0
    /\ config = constructorConfig
    /\ isOptimizing = FALSE
    /\ cycles = EmptyMap
    /\ cycleCount = 0
    /\ feedbackLoops = EmptyMap
    /\ optimizationHistory = <<>>
    /\ metricsHistory = <<>>
    /\ predictionModel = Null
    /\ faults = 0
    /\ recorded = <<>>

OptimizerConstructed == RealTimeOptimizer(DefaultConfig)

\* the end of runOptimizationCycle: the finally block
FinishCycle(no) ==
    /\ isOptimizing' = FALSE
    /\ cycles' = MapDelete(cycles, no)

\* runOptimizationCycle up to its first await of a timer or of the backend.
\* metricsThrow: collectMetrics raises (the catch and finally blocks run).
runOptimizationCycle(metrics, metricsThrow) ==
    LET no == cycleCount + 1
        detected == DetectFrom(metrics, 1, no, Cardinality(DOMAIN feedbackLoops))
        opportunities ==
            identifyOptimizationOpportunities(metrics, no, Cardinality(DOMAIN feedbackLoops))
        optimizations ==
            SelectOptimizations(opportunities, config.maxOptimizationsPerCycle)
        cycle == [no |-> no, detected |-> detected,
                  maxPerCycle |-> config.maxOptimizationsPerCycle,
                  optimizations |-> optimizations, pos |-> 1,
                  awaiting |-> IF optimizations # <<>> THEN "timeout" ELSE "model"]
    IN  /\ cycleCount < MaxCycles
        /\ cycleCount' = no
        /\ IF metricsThrow
           THEN /\ faults < MaxFaults
                /\ faults' = faults + 1
                /\ FinishCycle(no)
                /\ UNCHANGED metricsHistory
           ELSE /\ metricsHistory' = Append(metricsHistory, [cycle |-> no])
                /\ UNCHANGED faults
                /\ IF optimizations # <<>> \/ config.adaptiveLearning
                   THEN /\ isOptimizing' = TRUE
                        /\ cycles' = MapSet(cycles, no, cycle)
                   ELSE FinishCycle(no)
        /\ UNCHANGED <<zai, initPending, timers, config, feedbackLoops,
                       optimizationHistory, predictionModel, recorded>>

\* the setInterval callback: if (!this.isOptimizing) await runOptimizationCycle().
\* A tick that finds isOptimizing set changes nothing.
TimerTickOn(samples) ==
    /\ timers > 0
    /\ ~isOptimizing
    /\ \E m \in samples, t \in BOOLEAN : runOptimizationCycle(m, t)
    /\ UNCHANGED <<thresholdVars, refineVars, fusionVars, requestVars>>

TimerTick == TimerTickOn(collectMetrics)

TimerTickMeasured == TimerTickOn(MeasuredMetrics)

\* the map of getRecommendations over the opportunities
Recommendation(opportunity) ==
    [metric |-> opportunity.trigger.metric,
     currentValue |-> opportunity.trigger.currentValue,
     threshold |-> opportunity.trigger.threshold,
     severity |-> opportunity.trigger.severity,
     action |-> opportunity.action.type,
     priority |-> opportunity.action.priority,
     estimatedImpact |-> opportunity.action.estimatedImpact]

\* recommendations computed the way a cycle begins: the metrics are pushed
GetRecommendationsRecordsMetrics(samples) ==
    /\ zai
    /\ \E m \in samples :
          LET opportunities ==
                  identifyOptimizationOpportunities(m, 0, Cardinality(DOMAIN feedbackLoops))
          IN  recommendations' =
                  [answered |-> TRUE,
                   data |-> [k \in 1..Len(opportunities) |->
                                Recommendation(opportunities[k])]]
    /\ metricsHistory' = Append(metricsHistory, [cycle |-> 0])
    /\ UNCHANGED <<zai, initPending, timers, config, isOptimizing, cycles, cycleCount,
                   feedbackLoops, optimizationHistory, predictionModel, faults, recorded>>
    /\ UNCHANGED <<amssZai, amssRequest, amssRequests, analyzerVars>>
    /\ UNCHANGED <<thresholdVars, refineVars, fusionVars>>

\* GET action=recommendations: getRecommendations().  Its two awaits are of
\* functions that await nothing, so the call runs in one piece.
GetRecommendationsOn(samples) ==
    /\ zai
    /\ \E m \in samples :
          LET opportunities ==
                  identifyOptimizationOpportunities(m, 0, Cardinality(DOMAIN feedbackLoops))
          IN  recommendations' =
                  [answered |-> TRUE,
                   data |-> [k \in 1..Len(opportunities) |->
                                Recommendation(opportunities[k])]]
    /\ UNCHANGED <<optimizerVars, amssZai, amssRequest, amssRequests, analyzerVars>>
    /\ UNCHANGED <<thresholdVars, refineVars, fusionVars>>

GetRecommendations == GetRecommendationsOn(collectMetrics)

GetRecommendationsMeasured == GetRecommendationsOn(MeasuredMetrics)

\* POST action=force-optimization: runOptimizationCycle() is called directly
ForceOptimization ==
    /\ zai
    /\ \E m \in collectMetrics, t \in BOOLEAN : runOptimizationCycle(m, t)
    /\ UNCHANGED <<thresholdVars, refineVars, fusionVars, requestVars>>

\* The timer of simulateOptimization fires (or the call throws) for the
\* optimization the cycle is executing: the rest of executeOptimization,
\* recordOptimizationResult, and the loop of runOptimizationCycle up to the
\* next await.
ExecuteOptimization ==
    \E no \in DOMAIN cycles, outcome \in ExecutionOutcomes :
        LET cycle == cycles[no]
            feedbackLoop == cycle.optimizations[cycle.pos]
            result == executeOptimization(feedbackLoop, outcome)
        IN  /\ cycle.awaiting = "timeout"
            /\ outcome.throws => faults < MaxFaults
            /\ faults' = IF outcome.throws THEN faults + 1 ELSE faults
            /\ feedbackLoops' =
                  MapSet(feedbackLoops, feedbackLoop.id, [feedbackLoop EXCEPT !.result = result])
            /\ optimizationHistory' = recordOptimizationResult(optimizationHistory, result)
            /\ recorded' = Append(recorded, result)
            /\ IF cycle.pos < Len(cycle.optimizations)
               THEN /\ cycles' = [cycles EXCEPT ![no].pos = cycle.pos + 1]
                    /\ UNCHANGED isOptimizing
               ELSE IF config.adaptiveLearning
               THEN /\ cycles' = [cycles EXCEPT ![no].pos = cycle.pos + 1,
                                                ![no].awaiting = "model"]
                    /\ UNCHANGED isOptimizing
               ELSE FinishCycle(no)
            /\ UNCHANGED <<zai, initPending, timers, config, cycleCount,
                           metricsHistory, predictionModel>>
            /\ UNCHANGED <<thresholdVars, refineVars, fusionVars, requestVars>>

\* an update that replaces the model whether or not the backend call answered
UpdatePredictionModelAlways ==
    \E no \in DOMAIN cycles, answered \in BOOLEAN :
        LET cycle == cycles[no] IN
        /\ cycle.awaiting = "model"
        /\ ~answered => faults < MaxFaults
        /\ faults' = IF answered THEN faults ELSE faults + 1
        /\ predictionModel' = [lastUpdated |-> no]
        /\ FinishCycle(no)
        /\ UNCHANGED <<zai, initPending, timers, config, cycleCount,
                       feedbackLoops, optimizationHistory, metricsHistory, recorded>>
        /\ UNCHANGED <<thresholdVars, refineVars, fusionVars, requestVars>>

\* updatePredictionModel after its backend call: the model is replaced when
\* the call answered, kept when it threw; then the cycle ends
UpdatePredictionModel ==
    \E no \in DOMAIN cycles, answered \in BOOLEAN :
        LET cycle == cycles[no] IN
        /\ cycle.awaiting = "model"
        /\ ~answered => faults < MaxFaults
        /\ faults' = IF answered THEN faults ELSE faults + 1
        /\ predictionModel' = IF answered THEN [lastUpdated |-> no] ELSE predictionModel
        /\ FinishCycle(no)
        /\ UNCHANGED <<zai, initPending, timers, config, cycleCount,
                       feedbackLoops, optimizationHistory, metricsHistory, recorded>>
        /\ UNCHANGED <<thresholdVars, refineVars, fusionVars, requestVars>>

(***************************************************************************)
(* The requests of app/api/amss/optimizer/route.ts.  Every handler first   *)
(* awaits initialize() when this.zai is unset, then acts: an action is     *)
(* taken only once zai is set.                                             *)
(***************************************************************************)
\* a request finds zai unset and calls initialize(), which awaits ZAI.create()
RequestInitialize ==
    /\ ~zai
    /\ initPending < MaxInitPending
    /\ initPending' = initPending + 1
    /\ UNCHANGED <<zai, timers, config, isOptimizing, cycles, cycleCount,
                   feedbackLoops, optimizationHistory, metricsHistory, predictionModel,
                   faults, recorded>>
    /\ UNCHANGED <<thresholdVars, refineVars, fusionVars, requestVars>>

\* setInterval(...) of startOptimizationCycle
startOptimizationCycle == timers' = timers + 1

\* ZAI.create() resolved: the rest of initialize()
InitializeCompletes ==
    /\ initPending > 0
    /\ initPending' = initPending - 1
    /\ zai' = TRUE
    /\ IF config.enableRealTimeOptimization
       THEN timers < MaxTimers /\ startOptimizationCycle
       ELSE UNCHANGED timers
    /\ UNCHANGED <<config, isOptimizing, cycles, cycleCount,
                   feedbackLoops, optimizationHistory, metricsHistory, predictionModel,
                   faults, recorded>>
    /\ UNCHANGED <<thresholdVars, refineVars, fusionVars, requestVars>>

\* ZAI.create() rejected: initialize() throws, the request answers 500
InitializeFails ==
    /\ initPending > 0
    /\ initPending' = initPending - 1
    /\ UNCHANGED <<zai, timers, config, isOptimizing, cycles, cycleCount,
                   feedbackLoops, optimizationHistory, metricsHistory, predictionModel,
                   faults, recorded>>
    /\ UNCHANGED <<thresholdVars, refineVars, fusionVars, requestVars>>

\* GET action=start: start()
Start ==
    /\ zai
    /\ timers < MaxTimers
    /\ config' = [config EXCEPT !.enableRealTimeOptimization = TRUE]
    /\ startOptimizationCycle
    /\ UNCHANGED <<zai, initPending, isOptimizing, cycles, cycleCount,
                   feedbackLoops, optimizationHistory, metricsHistory, predictionModel,
                   faults, recorded>>
    /\ UNCHANGED <<thresholdVars, refineVars, fusionVars, requestVars>>

\* GET action=stop: stop()
Stop ==
    /\ zai
    /\ config' = [config EXCEPT !.enableRealTimeOptimization = FALSE]
    /\ UNCHANGED <<zai, initPending, timers, isOptimizing, cycles, cycleCount,
                   feedbackLoops, optimizationHistory, metricsHistory, predictionModel,
                   faults, recorded>>
    /\ UNCHANGED <<thresholdVars, refineVars, fusionVars, requestVars>>

\* POST action=configure: Object.assign(config, patch), tried with the
\* patches {adaptiveLearning: b}
Configure ==
    /\ zai
    /\ \E b \in BOOLEAN : config' = [config EXCEPT !.adaptiveLearning = b]
    /\ UNCHANGED <<zai, initPending, timers, isOptimizing, cycles, cycleCount,
                   feedbackLoops, optimizationHistory, metricsHistory, predictionModel,
                   faults, recorded>>
    /\ UNCHANGED <<thresholdVars, refineVars, fusionVars, requestVars>>

\* a / b as the fraction it is; 0 stands as 0 / 1
Ratio(a, b) == [num |-> a, den |-> b]

RECURSIVE SumImprovement(_)
SumImprovement(history) ==
    IF history = <<>> THEN 0
    ELSE SumImprovement(SubSeq(history, 1, Len(history) - 1))
         + history[Len(history)].improvement

\* getStats(): what a call made in the current state returns
getStats ==
    LET totalOptimizations == Len(optimizationHistory)
        successfulOptimizations ==
            Cardinality({i \in 1..Len(optimizationHistory) : optimizationHistory[i].success})
    IN  [totalOptimizations |-> totalOptimizations,
         successfulOptimizations |-> successfulOptimizations,
         successRate |-> IF totalOptimizations > 0
                         THEN Ratio(successfulOptimizations, totalOptimizations)
                         ELSE Ratio(0, 1),
         averageImprovement |-> IF totalOptimizations > 0
                                THEN Ratio(SumImprovement(optimizationHistory),
                                           totalOptimizations)
                                ELSE Ratio(0, 1),
         activeFeedbackLoops |-> Cardinality(DOMAIN feedbackLoops),
         metricsHistoryLength |-> Len(metricsHistory),
         config |-> config,
         predictionModel |-> predictionModel]

\* a clearHistory that forgets this.feedbackLoops.clear()
ClearHistoryKeepsLoops ==
    /\ zai
    /\ optimizationHistory' = <<>>
    /\ metricsHistory' = <<>>
    /\ recorded' = <<>>
    /\ UNCHANGED <<zai, initPending, timers, config, isOptimizing, cycles, cycleCount,
                   predictionModel, faults, feedbackLoops>>
    /\ UNCHANGED <<thresholdVars, refineVars, fusionVars, requestVars>>

\* POST action=clear-history: clearHistory()
ClearHistory ==
    /\ zai
    /\ optimizationHistory' = <<>>
    /\ metricsHistory' = <<>>
    /\ feedbackLoops' = EmptyMap
    /\ recorded' = <<>>
    /\ UNCHANGED <<zai, initPending, timers, config, isOptimizing, cycles, cycleCount,
                   predictionModel, faults>>
    /\ UNCHANGED <<thresholdVars, refineVars, fusionVars, requestVars>>

(***************************************************************************)
(* RefinementEngine.  A QualityMetrics keeps the fields the engine reads:  *)
(* overall and the six fields the techniques and their selection test.     *)
(* The image is left out: every technique, and the fallback                *)
(* basicEnhancement, returns the image it was given.                       *)
(***************************************************************************)
\* largest maxIterations a call is made with
MaxIterationsArg == 3

Quality(overall, clarity, noise, composition, colorHarmony, coherence, conceptualClarity) ==
    [overall |-> overall,
     technical |-> [clarity |-> clarity, noise |-> noise],
     artistic |-> [composition |-> composition, colorHarmony |-> colorHarmony],
     semantic |-> [coherence |-> coherence, conceptualClarity |-> conceptualClarity]]

getDefaultQualityMetrics == Quality(50, 50, 50, 50, 50, 50, 50)

\* `x || 0.5`: a falsy x (0, or a field the answer lacks) becomes 0.5
OrDefault(x) == IF x = 0 THEN 50 ELSE x

processQualityMetrics(data) ==
    Quality(OrDefault(data.overall),
            OrDefault(data.technical.clarity), OrDefault(data.technical.noise),
            OrDefault(data.artistic.composition), OrDefault(data.artistic.colorHarmony),
            OrDefault(data.semantic.coherence), OrDefault(data.semantic.conceptualClarity))

\* The JSON the backend answers with: an answer of zeros (or of no fields),
\* a poor image, a fair image of unclear rendering, an image over the
\* default threshold that a technique still applies to, and one under it
\* that no technique applies to.
ResponseData ==
    {Quality(0, 0, 0, 0, 0, 0, 0),
     Quality(40, 75, 40, 40, 40, 75, 40),
     Quality(80, 50, 20, 80, 80, 80, 80),
     Quality(90, 60, 10, 90, 90, 90, 90),
     Quality(80, 90, 10, 90, 90, 90, 90)}

\* what awaiting the chat completion can end as: a rejection, a response
\* of no content, content JSON.parse throws on, or JSON
BackendAnswers ==
    {[kind |-> "throws", data |-> Null], [kind |-> "empty", data |-> Null],
     [kind |-> "unparsable", data |-> Null]}
        \cup {[kind |-> "json", data |-> d] : d \in ResponseData}

\* an assessment that takes a failure for a quality of zero
assessQualityZeroOnFailure(answer) ==
    IF answer.kind = "json" THEN processQualityMetrics(answer.data)
    ELSE Quality(0, 0, 0, 0, 0, 0, 0)

assessQuality(answer) ==
    IF answer.kind = "json" THEN processQualityMetrics(answer.data)
    ELSE getDefaultQualityMetrics

Technique(name, category, strength) ==
    [name |-> name, category |-> category, strength |-> strength]

\* Array.from(this.techniques.values()): insertion order of initializeTechniques
initializeTechniques ==
    <<Technique("Clarity Enhancement", "technical", 80),
      Technique("Noise Reduction", "technical", 70),
      Technique("Composition Balance", "artistic", 90),
      Technique("Color Harmonization", "artistic", 80),
      Technique("Semantic Coherence", "semantic", 90),
      Technique("Conceptual Clarity", "semantic", 80)>>

applicability(tech, metrics) ==
    CASE tech.name = "Clarity Enhancement" -> metrics.technical.clarity < 80
      [] tech.name = "Noise Reduction"     -> metrics.technical.noise > 30
      [] tech.name = "Composition Balance" -> metrics.artistic.composition < 70
      [] tech.name = "Color Harmonization" -> metrics.artistic.colorHarmony < 70
      [] tech.name = "Semantic Coherence"  -> metrics.semantic.coherence < 70
      [] tech.name = "Conceptual Clarity"  -> metrics.semantic.conceptualClarity < 70

\* a score whose conservative strategy leaves the bonus out
TechniqueScoreBonusLost(tech, currentQuality, fullConfig) ==
    LET bonus ==
            IF \/ tech.category = "technical" /\ currentQuality.technical.clarity < 70
               \/ tech.category = "artistic" /\ currentQuality.artistic.composition < 70
               \/ tech.category = "semantic" /\ currentQuality.semantic.coherence < 70
            THEN 30 ELSE 0
    IN  CASE fullConfig.adaptiveStrategy = "aggressive"   -> (tech.strength + bonus) * 12
          [] fullConfig.adaptiveStrategy = "conservative" -> tech.strength * 8
          [] OTHER                                    -> (tech.strength + bonus) * 10

\* the score of selectBestTechnique, in 1/1000
TechniqueScore(tech, currentQuality, fullConfig) ==
    LET bonus ==
            IF \/ tech.category = "technical" /\ currentQuality.technical.clarity < 70
               \/ tech.category = "artistic" /\ currentQuality.artistic.composition < 70
               \/ tech.category = "semantic" /\ currentQuality.semantic.coherence < 70
            THEN 30 ELSE 0
        factor ==
            CASE fullConfig.adaptiveStrategy = "aggressive"   -> 12
              [] fullConfig.adaptiveStrategy = "conservative" -> 8
              [] OTHER                                    -> 10
    IN  (tech.strength + bonus) * factor

\* reduce((best, current) => current.score > best.score ? current : best)
RECURSIVE BestOf(_, _, _)
BestOf(techniques, currentQuality, fullConfig) ==
    IF Len(techniques) = 1 THEN techniques[1]
    ELSE LET best == BestOf(SubSeq(techniques, 1, Len(techniques) - 1), currentQuality, fullConfig)
             current == techniques[Len(techniques)]
         IN  IF TechniqueScore(current, currentQuality, fullConfig)
                    > TechniqueScore(best, currentQuality, fullConfig)
             THEN current ELSE best

\* a reduce that lets the later of two equal scores win
RECURSIVE BestOfLastWins(_, _, _)
BestOfLastWins(techniques, currentQuality, fullConfig) ==
    IF Len(techniques) = 1 THEN techniques[1]
    ELSE LET best == BestOfLastWins(SubSeq(techniques, 1, Len(techniques) - 1),
                                    currentQuality, fullConfig)
             current == techniques[Len(techniques)]
         IN  IF TechniqueScore(current, currentQuality, fullConfig)
                    >= TechniqueScore(best, currentQuality, fullConfig)
             THEN current ELSE best

selectBestTechnique(techniques, currentQuality, fullConfig) ==
    BestOf(techniques, currentQuality, fullConfig)

\* applyRefinement: the names of the techniques used
applyRefinement(techniques, currentQuality, fullConfig) ==
    <<selectBestTechnique(techniques, currentQuality, fullConfig).name>>

\* a convergence test that wants the threshold exceeded
checkConvergenceStrict(quality, fullConfig) == quality.overall > fullConfig.qualityThreshold

checkConvergence(quality, fullConfig) == quality.overall >= fullConfig.qualityThreshold

\* a total that is the gain of the last step alone
calculateTotalImprovementOfLastStep(steps) ==
    IF Len(steps) = 0 THEN 0
    ELSE steps[Len(steps)].qualityAfter.overall - steps[Len(steps)].qualityBefore.overall

calculateTotalImprovement(steps) ==
    IF Len(steps) = 0 THEN 0
    ELSE steps[Len(steps)].qualityAfter.overall - steps[1].qualityBefore.overall

DefaultRefinementConfig ==
    [maxIterations |-> 5, qualityThreshold |-> 85, adaptiveStrategy |-> "balanced"]

\* the configurations refineImage is called with
RefinementConfigs ==
    {[DefaultRefinementConfig EXCEPT !.maxIterations = n, !.qualityThreshold = t,
                                     !.adaptiveStrategy = a] :
        n \in 0..MaxIterationsArg, t \in {50, 85},
        a \in {"conservative", "balanced", "aggressive"}}

\* ---- selectBestTechnique called on its own

AdaptiveStrategies == {"conservative", "balanced", "aggressive"}

\* no call made yet; selected[a] is the name of the technique returned under
\* strategy a, "" before the call
SelectionIdle ==
    [techniques |-> <<>>, currentQuality |-> getDefaultQualityMetrics,
     selected |-> [a \in AdaptiveStrategies |-> ""]]

\* the techniques a caller can pass: the six of the engine and one of the
\* caller whose strength with the bonus equals a strength of the engine's
SelectableTechniques ==
    initializeTechniques \o <<Technique("Detail Recovery", "technical", 60)>>

\* the qualities the scores depend on: each of clarity, composition and
\* coherence under, just under and at 0.7
SelectionQualities ==
    {Quality(50, clarity, 20, composition, 80, coherence, 80) :
        clarity \in {50, 69, 70}, composition \in {50, 69, 70}, coherence \in {50, 69, 70}}

\* the elements of techniques at the positions in kept, in their order
RECURSIVE SubList(_, _)
SubList(techniques, kept) ==
    IF Len(techniques) = 0 THEN <<>>
    ELSE LET front == SubList(SubSeq(techniques, 1, Len(techniques) - 1), kept)
         IN  IF Len(techniques) \in kept
             THEN Append(front, techniques[Len(techniques)]) ELSE front

\* the arguments of the calls: a non-empty list of techniques and a quality
TechniquesOffered ==
    /\ selection = SelectionIdle
    /\ \E kept \in SUBSET (1..Len(SelectableTechniques)) \ {{}},
          currentQuality \in SelectionQualities :
          selection' = [selection EXCEPT
                           !.techniques = SubList(SelectableTechniques, kept),
                           !.currentQuality = currentQuality]
    /\ UNCHANGED <<refinement, returned, qualityHistory, refinementHistory, pipeline,
                   sessionVars>>
    /\ UNCHANGED <<thresholdVars, optimizerVars, fusionVars, requestVars>>

\* selectBestTechnique(techniques, currentQuality, config) under one strategy
SelectBestTechnique ==
    /\ Len(selection.techniques) # 0
    /\ \E a \in AdaptiveStrategies :
          /\ selection.selected[a] = ""
          /\ selection' = [selection EXCEPT !.selected[a] =
                 selectBestTechnique(selection.techniques, selection.currentQuality,
                     [DefaultRefinementConfig EXCEPT !.adaptiveStrategy = a]).name]
    /\ UNCHANGED <<refinement, returned, qualityHistory, refinementHistory, pipeline,
                   sessionVars>>
    /\ UNCHANGED <<thresholdVars, optimizerVars, fusionVars, requestVars>>

\* the initialImage of refineImage, a string; an image a technique makes of
\* it is the string with one more character
InitialImage == <<"i">>

\* locals of refineImage: image is currentImage, output is
\* refinementResult.image, applied tells how the awaited apply ended
\* ("input": it returned the image it was given, as the engine's own
\* techniques do)
RefinementIdle ==
    [phase |-> "idle", config |-> DefaultRefinementConfig,
     currentQuality |-> getDefaultQualityMetrics, iteration |-> 0, converged |-> FALSE,
     steps |-> <<>>, techniquesUsed |-> <<>>, applications |-> 0, assessments |-> 0,
     image |-> InitialImage, output |-> InitialImage, applied |-> "input"]

\* a filter that lets every technique through
AllTechniques(techniques, currentQuality) == techniques

\* fullConfig.techniques.filter(tech => tech.applicability(currentQuality))
ApplicableTechniques(techniques, currentQuality) ==
    SelectSeq(techniques, LAMBDA tech : applicability(tech, currentQuality))

\* a loop that stops one iteration early
LoopGoesOnOneLess(r) == r.iteration + 1 < r.config.maxIterations /\ ~r.converged

\* a loop that runs one more iteration: `<=` for `<`
LoopGoesOnOneMore(r) == r.iteration <= r.config.maxIterations /\ ~r.converged

\* the condition of the while loop of refineImage
LoopGoesOn(r) == r.iteration < r.config.maxIterations /\ ~r.converged

\* refineImage from the head of its loop to its next await or its return;
\* r holds the locals at the head of the loop
RefineLoop(r) ==
    LET applicableTechniques == ApplicableTechniques(initializeTechniques, r.currentQuality)
    IN  IF LoopGoesOn(r) /\ Len(applicableTechniques) # 0
        THEN /\ refinement' =
                   [r EXCEPT !.phase = "assessing",
                             !.techniquesUsed =
                                 applyRefinement(applicableTechniques, r.currentQuality, r.config),
                             !.output = r.image,
                             !.applied = "input",
                             !.applications = r.applications + 1]
             /\ UNCHANGED returned
        ELSE /\ refinement' = [r EXCEPT !.phase = "returned"]
             /\ returned' = [finalImage |-> r.image,
                             quality |-> r.currentQuality, steps |-> r.steps,
                             totalImprovement |-> calculateTotalImprovement(r.steps),
                             converged |-> r.converged]

\* refineImage(initialImage, targetPrompt, config) up to its first await
RefineImage ==
    /\ refinement.phase = "idle"
    /\ \E c \in RefinementConfigs :
          refinement' = [refinement EXCEPT !.phase = "initial", !.config = c]
    /\ UNCHANGED <<returned, qualityHistory, refinementHistory, pipeline, sessionVars, selection>>
    /\ UNCHANGED <<thresholdVars, optimizerVars, fusionVars, requestVars>>

\* the first assessQuality is answered
InitialAssessedWith(answer) ==
    /\ refinement.phase = "initial"
    /\ LET currentQuality == assessQuality(answer) IN
       /\ qualityHistory' = <<currentQuality>>
       /\ RefineLoop([refinement EXCEPT !.currentQuality = currentQuality,
                                        !.assessments = 1])
    /\ UNCHANGED <<refinementHistory, pipeline, sessionVars, selection>>
    /\ UNCHANGED <<thresholdVars, optimizerVars, fusionVars, requestVars>>

InitialAssessed == \E answer \in BackendAnswers : InitialAssessedWith(answer)

\* an iteration that does not carry its output image into the next one
AssessedWithStaleImage(answer) ==
    /\ refinement.phase = "assessing"
    /\ LET newQuality == assessQuality(answer)
           step == [iteration |-> refinement.iteration,
                    inputImage |-> refinement.image,
                    outputImage |-> refinement.output,
                    qualityBefore |-> refinement.currentQuality,
                    qualityAfter |-> newQuality,
                    improvement |-> newQuality.overall - refinement.currentQuality.overall,
                    techniquesApplied |-> refinement.techniquesUsed]
       IN  /\ refinementHistory' = Append(refinementHistory, step)
           /\ qualityHistory' = Append(qualityHistory, newQuality)
           /\ RefineLoop([refinement EXCEPT
                             !.steps = Append(refinement.steps, step),
                             !.converged = checkConvergence(newQuality, refinement.config),
                             !.currentQuality = newQuality,
                             !.iteration = refinement.iteration + 1,
                             !.assessments = refinement.assessments + 1])
    /\ UNCHANGED <<pipeline, sessionVars, selection>>
    /\ UNCHANGED <<thresholdVars, optimizerVars, fusionVars, requestVars>>

\* the assessQuality of an iteration is answered: the rest of the iteration
AssessedWith(answer) ==
    /\ refinement.phase = "assessing"
    /\ LET newQuality == assessQuality(answer)
           step == [iteration |-> refinement.iteration,
                    inputImage |-> refinement.image,
                    outputImage |-> refinement.output,
                    qualityBefore |-> refinement.currentQuality,
                    qualityAfter |-> newQuality,
                    improvement |-> newQuality.overall - refinement.currentQuality.overall,
                    techniquesApplied |-> refinement.techniquesUsed]
       IN  /\ refinementHistory' = Append(refinementHistory, step)
           /\ qualityHistory' = Append(qualityHistory, newQuality)
           /\ RefineLoop([refinement EXCEPT
                             !.steps = Append(refinement.steps, step),
                             !.converged = checkConvergence(newQuality, refinement.config),
                             !.image = refinement.output,
                             !.currentQuality = newQuality,
                             !.iteration = refinement.iteration + 1,
                             !.assessments = refinement.assessments + 1])
    /\ UNCHANGED <<pipeline, sessionVars, selection>>
    /\ UNCHANGED <<thresholdVars, optimizerVars, fusionVars, requestVars>>

Assessed == \E answer \in BackendAnswers : AssessedWith(answer)

\* ---- techniques given in config.techniques, whose apply may make a new
\* image or reject

\* a rejected apply that leaves techniquesUsed as the selection made it
ApplyRejectsKeepsTechnique ==
    /\ refinement.phase = "assessing"
    /\ refinement.applied = "input"
    /\ \E enhancementFails \in BOOLEAN :
          refinement' = [refinement EXCEPT
                            !.output = refinement.image,
                            !.applied = IF enhancementFails THEN "fallback failed"
                                        ELSE "fallback"]
    /\ UNCHANGED <<returned, qualityHistory, refinementHistory, pipeline, sessionVars, selection>>
    /\ UNCHANGED <<thresholdVars, optimizerVars, fusionVars, requestVars>>

\* selectedTechnique.apply rejects: the catch of applyRefinement awaits
\* basicEnhancement, which returns the image it was given whether its
\* backend call answers or throws
ApplyRejects ==
    /\ refinement.phase = "assessing"
    /\ refinement.applied = "input"
    /\ \E enhancementFails \in BOOLEAN :
          refinement' = [refinement EXCEPT
                            !.output = refinement.image,
                            !.techniquesUsed = <<"basic-enhancement">>,
                            !.applied = IF enhancementFails THEN "fallback failed"
                                        ELSE "fallback"]
    /\ UNCHANGED <<returned, qualityHistory, refinementHistory, pipeline, sessionVars, selection>>
    /\ UNCHANGED <<thresholdVars, optimizerVars, fusionVars, requestVars>>

\* selectedTechnique.apply resolves with a new image
ApplyRefines ==
    /\ refinement.phase = "assessing"
    /\ refinement.applied = "input"
    /\ refinement' = [refinement EXCEPT
                          !.output = Append(refinement.image, "r"),
                          !.applied = "refined"]
    /\ UNCHANGED <<returned, qualityHistory, refinementHistory, pipeline, sessionVars, selection>>
    /\ UNCHANGED <<thresholdVars, optimizerVars, fusionVars, requestVars>>

\* ---- a second refineImage call on the same engine, in flight with the first

\* the configurations the second call is made with
ConcurrentConfigs == {[DefaultRefinementConfig EXCEPT !.maxIterations = 1]}

\* the locals of a call after the head of its loop: at its next await, or
\* at its return
LoopHead(r) ==
    LET applicableTechniques == ApplicableTechniques(initializeTechniques, r.currentQuality)
    IN  IF LoopGoesOn(r) /\ Len(applicableTechniques) # 0
        THEN [r EXCEPT !.phase = "assessing",
                       !.techniquesUsed =
                           applyRefinement(applicableTechniques, r.currentQuality, r.config),
                       !.output = r.image,
                       !.applied = "input",
                       !.applications = r.applications + 1]
        ELSE [r EXCEPT !.phase = "returned"]

\* the object refineImage returns
RefinementResult(r) ==
    [finalImage |-> r.image, quality |-> r.currentQuality, steps |-> r.steps,
     totalImprovement |-> calculateTotalImprovement(r.steps),
     converged |-> r.converged]

ConcurrentGoesOn(r) ==
    /\ concurrent' = LoopHead(r)
    /\ concurrentReturned' =
          IF LoopHead(r).phase = "returned" THEN RefinementResult(r) ELSE concurrentReturned

\* the second refineImage call, up to its first await
ConcurrentRefineImage ==
    /\ concurrent.phase = "idle"
    /\ \E c \in ConcurrentConfigs :
          concurrent' = [concurrent EXCEPT !.phase = "initial", !.config = c]
    /\ UNCHANGED <<refinement, returned, qualityHistory, refinementHistory, pipeline,
                   concurrentReturned, selection>>
    /\ UNCHANGED <<thresholdVars, optimizerVars, fusionVars, requestVars>>

\* the first assessQuality of the second call is answered
ConcurrentInitialAssessed ==
    /\ concurrent.phase = "initial"
    /\ \E answer \in BackendAnswers :
          LET currentQuality == assessQuality(answer) IN
          /\ qualityHistory' = <<currentQuality>>
          /\ ConcurrentGoesOn([concurrent EXCEPT !.currentQuality = currentQuality,
                                                 !.assessments = 1])
    /\ UNCHANGED <<refinement, returned, refinementHistory, pipeline, selection>>
    /\ UNCHANGED <<thresholdVars, optimizerVars, fusionVars, requestVars>>

\* the assessQuality of an iteration of the second call is answered
ConcurrentAssessed ==
    /\ concurrent.phase = "assessing"
    /\ \E answer \in BackendAnswers :
          LET newQuality == assessQuality(answer)
              step == [iteration |-> concurrent.iteration,
                       inputImage |-> concurrent.image,
                       outputImage |-> concurrent.output,
                       qualityBefore |-> concurrent.currentQuality,
                       qualityAfter |-> newQuality,
                       improvement |-> newQuality.overall - concurrent.currentQuality.overall,
                       techniquesApplied |-> concurrent.techniquesUsed]
          IN  /\ refinementHistory' = Append(refinementHistory, step)
              /\ qualityHistory' = Append(qualityHistory, newQuality)
              /\ ConcurrentGoesOn([concurrent EXCEPT
                                      !.steps = Append(concurrent.steps, step),
                                      !.converged = checkConvergence(newQuality, concurrent.config),
                                      !.image = concurrent.output,
                                      !.currentQuality = newQuality,
                                      !.iteration = concurrent.iteration + 1,
                                      !.assessments = concurrent.assessments + 1])
    /\ UNCHANGED <<refinement, returned, pipeline, selection>>
    /\ UNCHANGED <<thresholdVars, optimizerVars, fusionVars, requestVars>>

(***************************************************************************)
(* AMSSEngine.iterativeRefinement and assessAndOptimize.  qualityScore and *)
(* qualityImprovement in 1/1000; semanticCoherence and aestheticScore in   *)
(* 1/10000, so that qualityImprovement * 0.8 and * 0.9 are whole numbers.  *)
(***************************************************************************)
\* largest refinementSteps a generation is configured with
MaxRefinementSteps == 3

\* Math.random() of refineImage: qualityImprovement = 0.05 + random * 0.1
QualityImprovements == {50, 149}

\* the qualityScore of the fused result: 0.7 + random * 0.3 of generateEnsemble
FusedScores == {700, 800}

\* config.maxIterations of a generation: an option of the request, else the
\* engine's 5
MaxIterationsOptions == {1, 5}

\* the semanticCoherence and the aestheticScore of the fused result:
\* 0.8 + random * 0.2 and 0.75 + random * 0.25 of generateWithModel
FusedCoherences == {8000, 9900}

FusedAestheticScores == {7500, 9900}

PipelineIdle ==
    [phase |-> "idle", maxIterations |-> 5, refinementSteps |-> 3, qualityThreshold |-> 850,
     qualityScore |-> 0, semanticCoherence |-> 0, aestheticScore |-> 0,
     iteration |-> 0, i |-> 0, refinementHistory |-> <<>>]

\* an early termination that tests the result of the previous step
ThresholdReachedBefore(before, after, amssConfig) == before >= amssConfig.qualityThreshold

\* the early termination test of iterativeRefinement
ThresholdReached(before, after, amssConfig) == after >= amssConfig.qualityThreshold

\* a refinement that does not cap the aestheticScore
refineImageUncapped(result, qualityImprovement) ==
    [result EXCEPT
        !.qualityScore = Min(1000, result.qualityScore + qualityImprovement),
        !.semanticCoherence = Min(10000, result.semanticCoherence + qualityImprovement * 8),
        !.aestheticScore = result.aestheticScore + qualityImprovement * 9,
        !.iteration = result.iteration + 1]

\* AMSSEngine.refineImage: the scores and the iteration of { ...result, ... }
refineImage(result, qualityImprovement) ==
    [result EXCEPT
        !.qualityScore = Min(1000, result.qualityScore + qualityImprovement),
        !.semanticCoherence = Min(10000, result.semanticCoherence + qualityImprovement * 8),
        !.aestheticScore = Min(10000, result.aestheticScore + qualityImprovement * 9),
        !.iteration = result.iteration + 1]

\* applyFinalOptimizations: the qualityScore of the result
applyFinalOptimizations(qualityScore) == Min(1000, qualityScore + 50)

\* iterativeRefinement(result, config) is called with the fused result
IterativeRefinementOn(coherences, aestheticScores) ==
    /\ pipeline.phase = "idle"
    /\ \E steps \in 0..MaxRefinementSteps, t \in {850, 950}, score \in FusedScores,
          maxIterations \in MaxIterationsOptions,
          semanticCoherence \in coherences, aestheticScore \in aestheticScores :
          pipeline' = [pipeline EXCEPT
                          !.phase = IF 0 < steps THEN "refining" ELSE "done",
                          !.maxIterations = maxIterations,
                          !.refinementSteps = steps, !.qualityThreshold = t,
                          !.qualityScore = score,
                          !.semanticCoherence = semanticCoherence,
                          !.aestheticScore = aestheticScore]
    /\ UNCHANGED <<refinement, returned, qualityHistory, refinementHistory, sessionVars, selection>>
    /\ UNCHANGED <<thresholdVars, optimizerVars, fusionVars, requestVars>>

\* a fused result of the least semanticCoherence and aestheticScore
IterativeRefinement == IterativeRefinementOn({8000}, {7500})

\* a fused result of any semanticCoherence and aestheticScore
IterativeRefinementFused == IterativeRefinementOn(FusedCoherences, FusedAestheticScores)

\* one iteration of the for loop
RefinementStep ==
    /\ pipeline.phase = "refining"
    /\ \E qualityImprovement \in QualityImprovements :
          LET refinedResult == refineImage(pipeline, qualityImprovement)
              refined == refinedResult.qualityScore
              entry == [iteration |-> pipeline.i, quality |-> refined,
                        improvement |-> refined - pipeline.qualityScore]
              stops == \/ ThresholdReached(pipeline.qualityScore, refined, pipeline)
                       \/ ~(pipeline.i + 1 < pipeline.refinementSteps)
          IN  pipeline' = [refinedResult EXCEPT
                              !.refinementHistory = Append(pipeline.refinementHistory, entry),
                              !.i = IF ThresholdReached(pipeline.qualityScore, refined, pipeline)
                                    THEN pipeline.i ELSE pipeline.i + 1,
                              !.phase = IF stops THEN "done" ELSE "refining"]
    /\ UNCHANGED <<refinement, returned, qualityHistory, refinementHistory, sessionVars, selection>>
    /\ UNCHANGED <<thresholdVars, optimizerVars, fusionVars, requestVars>>

\* assessAndOptimize(refinedResult, config): the assessment, then
\* applyFinalOptimizations on the refined result
AssessAndOptimize ==
    /\ pipeline.phase = "done"
    /\ pipeline' = [pipeline EXCEPT
                        !.phase = "optimized",
                        !.qualityScore = applyFinalOptimizations(pipeline.qualityScore)]
    /\ UNCHANGED <<refinement, returned, qualityHistory, refinementHistory, sessionVars, selection>>
    /\ UNCHANGED <<thresholdVars, optimizerVars, fusionVars, requestVars>>

(***************************************************************************)
(* AMSSEngine.generateImage, phases 2 and 3: generateEnsemble and          *)
(* adaptiveFusion.  Scores in 1/1000.                                      *)
(***************************************************************************)
\* largest ensembleSize a generation is configured with
MaxEnsembleSize == 4

\* the roster of generateEnsemble
models == <<"gemini-2.5-flash", "gemini-2.5-flash-image-preview", "gemini-pro-vision">>

\* generateWithModel: the GenerationResult of a model that answered.  The
\* scores are its three Math.random() draws; imageData is the one
\* placeholder simulateImageGeneration returns.
GenerationResult(model, qualityScore, semanticCoherence, aestheticScore) ==
    [imageData |-> "placeholder", qualityScore |-> qualityScore,
     semanticCoherence |-> semanticCoherence, aestheticScore |-> aestheticScore,
     iteration |-> 0, modelsUsed |-> <<model>>]

\* what awaiting generateWithModel can end as: a throw, or a result
ModelOutcomes(model) ==
    {[ok |-> FALSE, result |-> Null]}
        \cup {[ok |-> TRUE, result |-> GenerationResult(model, q, c, 750)] :
                 q \in {700, 800}, c \in {800, 900}}

\* a sort that puts a candidate before the earlier candidates of its score
InsertByQualityUnstable(x, sorted) ==
    LET k == Cardinality({i \in 1..Len(sorted) : sorted[i].qualityScore > x.qualityScore})
    IN  SubSeq(sorted, 1, k) \o <<x>> \o SubSeq(sorted, k + 1, Len(sorted))

\* ensembleResults.sort((a, b) => b.qualityScore - a.qualityScore): stable
InsertByQuality(x, sorted) ==
    LET k == Cardinality({i \in 1..Len(sorted) : sorted[i].qualityScore >= x.qualityScore})
    IN  SubSeq(sorted, 1, k) \o <<x>> \o SubSeq(sorted, k + 1, Len(sorted))

RECURSIVE SortByQuality(_)
SortByQuality(s) ==
    IF s = <<>> THEN <<>>
    ELSE InsertByQuality(s[Len(s)], SortByQuality(SubSeq(s, 1, Len(s) - 1)))

\* ensembleResults.flatMap(r => r.metadata.modelsUsed)
RECURSIVE FlatModelsUsed(_)
FlatModelsUsed(results) ==
    IF results = <<>> THEN <<>>
    ELSE results[1].modelsUsed \o FlatModelsUsed(SubSeq(results, 2, Len(results)))

\* [...new Set(list)]: the first occurrence of each element, in order
RECURSIVE Unique(_)
Unique(list) ==
    IF list = <<>> THEN <<>>
    ELSE LET front == Unique(SubSeq(list, 1, Len(list) - 1))
             last == list[Len(list)]
         IN  IF \E i \in 1..Len(front) : front[i] = last THEN front ELSE Append(front, last)

NoEnsembleError == "No ensemble results to fuse"

\* adaptiveFusion: the fused result, or the error it throws
adaptiveFusion(ensembleResults) ==
    IF Len(ensembleResults) = 0
    THEN [ok |-> FALSE, error |-> NoEnsembleError, result |-> Null]
    ELSE LET sorted == SortByQuality(ensembleResults) IN
         [ok |-> TRUE, error |-> "",
          result |-> [imageData |-> sorted[1].imageData,
                      qualityScore |-> sorted[1].qualityScore,
                      semanticCoherence |-> sorted[1].semanticCoherence,
                      aestheticScore |-> sorted[1].aestheticScore,
                      iteration |-> 0,
                      modelsUsed |-> Unique(FlatModelsUsed(sorted))]]

\* attempted and failures are history: the models generateWithModel was
\* called with, and those whose call threw.  ensemble keeps the candidates
\* in the order they were pushed.
GenerationIdle ==
    [phase |-> "idle", ensembleSize |-> 3, i |-> 0, ensemble |-> <<>>,
     fused |-> Null, error |-> "", attempted |-> <<>>, failures |-> {}]

\* a loop that gives up at the first model that fails
EnsembleGoesOnUnlessFailed(i, ensembleSize, ok) ==
    ok /\ i < Min(ensembleSize, Len(models))

\* the condition of the for loop of generateEnsemble
EnsembleGoesOn(i, ensembleSize, ok) == i < Min(ensembleSize, Len(models))

\* generateEnsemble at the head of its loop, i models done (the last one
\* ended ok or not): the next generateWithModel, or the return into
\* adaptiveFusion
EnsembleLoop(g, ok) ==
    IF EnsembleGoesOn(g.i, g.ensembleSize, ok)
    THEN generation' = [g EXCEPT !.phase = "generating",
                                 !.attempted = Append(g.attempted, models[g.i + 1])]
    ELSE LET fusion == adaptiveFusion(g.ensemble) IN
         generation' = [g EXCEPT !.phase = IF fusion.ok THEN "fused" ELSE "failed",
                                 !.fused = fusion.result,
                                 !.error = fusion.error]

\* generateImage reaches generateEnsemble(semanticAnalysis, config)
GenerateEnsemble ==
    /\ generation.phase = "idle"
    /\ \E ensembleSize \in 0..MaxEnsembleSize :
          EnsembleLoop([generation EXCEPT !.ensembleSize = ensembleSize], TRUE)
    /\ UNCHANGED <<thresholdVars, optimizerVars, refineVars, requestVars>>
    /\ UNCHANGED <<styleCall, fusionCache, transferred, transfers>>

\* generateWithModel(models[i], ...) ends: a push or the catch, then i++
GenerateWithModel ==
    /\ generation.phase = "generating"
    /\ LET model == models[generation.i + 1] IN
       \E outcome \in ModelOutcomes(model) :
          EnsembleLoop([generation EXCEPT
                           !.ensemble = IF outcome.ok
                                        THEN Append(generation.ensemble, outcome.result)
                                        ELSE generation.ensemble,
                           !.failures = IF outcome.ok THEN generation.failures
                                        ELSE generation.failures \cup {model},
                           !.i = generation.i + 1],
                       outcome.ok)
    /\ UNCHANGED <<thresholdVars, optimizerVars, refineVars, requestVars>>
    /\ UNCHANGED <<styleCall, fusionCache, transferred, transfers>>

(***************************************************************************)
(* StyleTransferEngine.  Strength, complexity and adaptability in 1/100,   *)
(* style scores in 1/1000; weights are exact fractions, 0/0 being NaN.     *)
(***************************************************************************)
\* most style images of a transferStyle call, most calls
MaxStyles == 3
MaxTransfers == 2

\* generateCacheKey keeps this many characters of the content image and of
\* the joined style images
KeyPrefixLen == 50

RECURSIVE GCD(_, _)
GCD(a, b) == IF b = 0 THEN a ELSE GCD(b, a % b)

NaN == Ratio(0, 0)

\* a / b of two non-negative numbers a, b in lowest terms; 0 / 0 is NaN
Fraction(a, b) ==
    IF b = 0 THEN NaN ELSE LET g == GCD(a, b) IN Ratio(a \div g, b \div g)

FractionAdd(x, y) ==
    IF x.den = 0 \/ y.den = 0 THEN NaN
    ELSE Fraction(x.num * y.den + y.num * x.den, x.den * y.den)

FractionTimes(x, y) ==
    IF x.den = 0 \/ y.den = 0 THEN NaN ELSE Fraction(x.num * y.num, x.den * y.den)

FractionDiv(x, y) ==
    IF x.den = 0 \/ y.den = 0 THEN NaN ELSE Fraction(x.num * y.den, x.den * y.num)

RECURSIVE FractionSum(_)
FractionSum(list) ==
    IF list = <<>> THEN Fraction(0, 1)
    ELSE FractionAdd(FractionSum(SubSeq(list, 1, Len(list) - 1)), list[Len(list)])

\* images are strings, a string is the sequence of its characters
Chars(n, c) == [i \in 1..n |-> c]

\* the start that two images of one encoding share
ImageHeader == Chars(KeyPrefixLen, "i")

StyleImages == {ImageHeader \o <<"a">>, <<"s">>}
ContentImages == {ImageHeader \o <<"c">>, <<"t">>}
Strengths == {0, 70}

\* s.substring(0, n)
substring(str, n) == SubSeq(str, 1, Min(n, Len(str)))

\* styleImages.join('|')
RECURSIVE join(_)
join(list) ==
    IF Len(list) = 0 THEN <<>>
    ELSE IF Len(list) = 1 THEN list[1]
    ELSE join(SubSeq(list, 1, Len(list) - 1)) \o <<"|">> \o list[Len(list)]

\* the three parts of the key; JSON.stringify(config) is kept as the
\* configuration itself, two configurations having equal strings exactly
\* when they are equal
generateCacheKey(contentImage, styleImages, fullConfig) ==
    [content |-> substring(contentImage, KeyPrefixLen),
     style |-> substring(join(styleImages), KeyPrefixLen),
     config |-> fullConfig]

\* the defaults of transferStyle with the caller's config spread over them
StyleTransferConfig(styleImages, strength) ==
    [strength |-> strength, preserveContent |-> 60, multiStyle |-> Len(styleImages) > 1]

StyleId(index) == "style_" \o ToString(index)

StyleProfile(index, mood, complexity, adaptability) ==
    [id |-> StyleId(index), mood |-> mood, complexity |-> complexity,
     adaptability |-> adaptability]

getDefaultStyleProfile(index) == StyleProfile(index, "neutral", 50, 50)

\* data.x || default: an absent or zero number, an absent or empty string
processStyleProfile(data, index) ==
    StyleProfile(index,
                 IF data.mood = "" THEN "neutral" ELSE data.mood,
                 IF data.complexity = 0 THEN 50 ELSE data.complexity,
                 IF data.adaptability = 0 THEN 50 ELSE data.adaptability)

\* what the backend answers to the style analysis of one image
StyleAnswers ==
    { [kind |-> "throws", data |-> Null],
      [kind |-> "empty", data |-> Null],
      [kind |-> "json", data |-> [mood |-> "calm", complexity |-> 80, adaptability |-> 90]],
      [kind |-> "json", data |-> [mood |-> "", complexity |-> 0, adaptability |-> 0]] }

analyzeStyleImage(answer, index) ==
    IF answer.kind = "json" THEN processStyleProfile(answer.data, index)
    ELSE getDefaultStyleProfile(index)

\* a region of the content analysis; mood "" and complexity 0 when absent
Region(mood, complexity) ==
    [mood |-> mood, complexity |-> complexity, complexityGiven |-> complexity # 0]

\* a region whose complexity is the number 0
FlatRegion(mood) == [mood |-> mood, complexity |-> 0, complexityGiven |-> TRUE]

\* style and content answers with a simple style and a flat region
SimpleStyleAnswers ==
    { [kind |-> "json", data |-> [mood |-> "calm", complexity |-> 20, adaptability |-> 50]],
      [kind |-> "json", data |-> [mood |-> "calm", complexity |-> 80, adaptability |-> 90]] }

\* style answers of two moods: a calm style of low adaptability and a bold,
\* adaptable one
MoodStyleAnswers ==
    { [kind |-> "json", data |-> [mood |-> "calm", complexity |-> 20, adaptability |-> 30]],
      [kind |-> "json", data |-> [mood |-> "bold", complexity |-> 60, adaptability |-> 90]] }

FlatContentAnswers ==
    { [kind |-> "json", regions |-> <<Region("calm", 60), FlatRegion("dark")>>] }

\* what the backend answers to the content analysis: a failure gives {}
ContentAnswers ==
    { [kind |-> "throws", regions |-> <<>>],
      [kind |-> "json",
       regions |-> <<Region("calm", 60), Region("", 0), Region("neutral", 90)>>] }

analyzeContentStructure(answer) == answer.regions

Abs(x) == IF x < 0 THEN -x ELSE x

StyleScore(region, profile) ==
    (IF region.mood # "" /\ profile.mood = region.mood THEN 300 ELSE 0)
    + (IF region.complexity # 0 /\ Abs(profile.complexity - region.complexity) < 30
       THEN 200 ELSE 0)
    + profile.adaptability * 2

\* the forEach of selectBestStyleForRegion over the first k profiles
RECURSIVE BestStyleOf(_, _, _)
BestStyleOf(region, styleProfiles, k) ==
    IF k = 0 THEN [bestStyle |-> styleProfiles[1], bestScore |-> 0]
    ELSE LET before == BestStyleOf(region, styleProfiles, k - 1)
             score == StyleScore(region, styleProfiles[k])
         IN  IF score > before.bestScore
             THEN [bestStyle |-> styleProfiles[k], bestScore |-> score]
             ELSE before

selectBestStyleForRegion(region, styleProfiles) ==
    BestStyleOf(region, styleProfiles, Len(styleProfiles)).bestStyle

\* the weight of one profile before the normalisation
RawWeight(region, profile, styleProfiles, fullConfig) ==
    FractionTimes(
        FractionTimes(Fraction(1, Len(styleProfiles)),
                      IF region.mood # "" /\ profile.mood = region.mood
                      THEN Fraction(12, 10) ELSE Fraction(1, 1)),
        Fraction(fullConfig.strength, 100))

\* a normalisation that leaves the weights alone when they are all zero
NormalizeGuarded(weight, totalWeight) ==
    IF totalWeight.num = 0 THEN weight ELSE FractionDiv(weight, totalWeight)

\* weight / totalWeight
Normalize(weight, totalWeight) == FractionDiv(weight, totalWeight)

calculateBlendWeights(region, styleProfiles, fullConfig) ==
    LET raw == [k \in 1..Len(styleProfiles) |->
                  RawWeight(region, styleProfiles[k], styleProfiles, fullConfig)]
        totalWeight == FractionSum(raw)
    IN  [id \in {styleProfiles[k].id : k \in 1..Len(styleProfiles)} |->
            LET k == CHOOSE k \in 1..Len(styleProfiles) : styleProfiles[k].id = id
            IN  Normalize(raw[k], totalWeight)]

calculateAdaptationLevel(region, style) ==
    Min(100, 50 + (IF region.complexity > 70 THEN 20 ELSE 0)
                + (style.adaptability * 30) \div 100)

\* region.blendWeights.get(profile.id) || 0: NaN and a missing entry give 0
generateBlendMatrix(regions, styleProfiles) ==
    [r \in 1..Len(regions) |->
        [k \in 1..Len(styleProfiles) |->
            LET id == styleProfiles[k].id IN
            IF id \in DOMAIN regions[r].blendWeights
               /\ regions[r].blendWeights[id].num # 0
            THEN regions[r].blendWeights[id]
            ELSE Fraction(0, 1)]]

generateFusionMap(contentAnalysis, styleProfiles, fullConfig) ==
    LET regions ==
            [i \in 1..Len(contentAnalysis) |->
                LET region == contentAnalysis[i]
                    bestStyle == selectBestStyleForRegion(region, styleProfiles)
                IN  [id |-> "region_" \o ToString(i - 1),
                     dominantStyle |-> bestStyle.id,
                     blendWeights |-> calculateBlendWeights(region, styleProfiles, fullConfig),
                     adaptationLevel |-> calculateAdaptationLevel(region, bestStyle)]]
    IN  [regions |-> regions,
         blendWeights |-> generateBlendMatrix(regions, styleProfiles),
         styleDistribution |->
             [id \in {styleProfiles[k].id : k \in 1..Len(styleProfiles)} |->
                 Fraction(1, Len(styleProfiles))],
         semanticPreservation |-> fullConfig.preserveContent]

StyleCallIdle ==
    [phase |-> "idle", contentImage |-> <<>>, styleImages |-> <<>>,
     fullConfig |-> Null, cacheKey |-> Null, styleProfiles |-> <<>>,
     contentAnalysis |-> <<>>, fusionMap |-> Null]

\* transferStyle(contentImage, styleImages, {strength}) up to its first
\* await: a cache hit returns at once
TransferStyle ==
    /\ styleCall.phase = "idle"
    /\ transfers < MaxTransfers
    /\ \E contentImage \in ContentImages, n \in 1..MaxStyles, strength \in Strengths :
       \E styleImages \in [1..n -> StyleImages] :
          LET fullConfig == StyleTransferConfig(styleImages, strength)
              cacheKey == generateCacheKey(contentImage, styleImages, fullConfig)
              request == [contentImage |-> contentImage, styleImages |-> styleImages,
                          fullConfig |-> fullConfig]
          IN  IF cacheKey \in DOMAIN fusionCache
              THEN /\ transferred' = [request |-> request, cached |-> TRUE,
                                      result |-> fusionCache[cacheKey]]
                   /\ UNCHANGED styleCall
              ELSE /\ styleCall' = [StyleCallIdle EXCEPT
                                       !.phase = "extracting",
                                       !.contentImage = contentImage,
                                       !.styleImages = styleImages,
                                       !.fullConfig = fullConfig,
                                       !.cacheKey = cacheKey]
                   /\ UNCHANGED transferred
    /\ transfers' = transfers + 1
    /\ UNCHANGED <<fusionCache, generation>>
    /\ UNCHANGED <<thresholdVars, optimizerVars, refineVars, requestVars>>

\* extractStyleProfiles: analyzeStyleImage(styleImages[i], i) ends
StyleAnalyzedOn(answers) ==
    /\ styleCall.phase = "extracting"
    /\ \E answer \in answers :
          LET profiles == Append(styleCall.styleProfiles,
                                 analyzeStyleImage(answer, Len(styleCall.styleProfiles)))
          IN  styleCall' = [styleCall EXCEPT
                               !.styleProfiles = profiles,
                               !.phase = IF Len(profiles) < Len(styleCall.styleImages)
                                         THEN "extracting" ELSE "analyzing"]
    /\ UNCHANGED <<fusionCache, transferred, transfers, generation>>
    /\ UNCHANGED <<thresholdVars, optimizerVars, refineVars, requestVars>>

StyleAnalyzed == StyleAnalyzedOn(StyleAnswers)

StyleAnalyzedSimple == StyleAnalyzedOn(SimpleStyleAnswers)

StyleAnalyzedMoods == StyleAnalyzedOn(MoodStyleAnswers)

\* analyzeContentStructure ends, generateFusionMap follows
ContentAnalyzedOn(answers) ==
    /\ styleCall.phase = "analyzing"
    /\ \E answer \in answers :
          styleCall' = [styleCall EXCEPT
                           !.phase = "transferring",
                           !.contentAnalysis = analyzeContentStructure(answer),
                           !.fusionMap = generateFusionMap(analyzeContentStructure(answer),
                                                           styleCall.styleProfiles,
                                                           styleCall.fullConfig)]
    /\ UNCHANGED <<fusionCache, transferred, transfers, generation>>
    /\ UNCHANGED <<thresholdVars, optimizerVars, refineVars, requestVars>>

ContentAnalyzed == ContentAnalyzedOn(ContentAnswers)

ContentAnalyzedFlat == ContentAnalyzedOn(FlatContentAnswers)

\* the transfer, the assessment and the refinement end: the result (its
\* fusionMap, and the profiles its composite styleProfile is made of) is
\* cached and returned
TransferCompletes ==
    /\ styleCall.phase = "transferring"
    /\ LET result == [fusionMap |-> styleCall.fusionMap,
                      styleProfiles |-> styleCall.styleProfiles]
       IN  /\ fusionCache' = MapSet(fusionCache, styleCall.cacheKey, result)
           /\ transferred' = [request |-> [contentImage |-> styleCall.contentImage,
                                           styleImages |-> styleCall.styleImages,
                                           fullConfig |-> styleCall.fullConfig],
                              cached |-> FALSE, result |-> result]
    /\ styleCall' = StyleCallIdle
    /\ UNCHANGED <<transfers, generation>>
    /\ UNCHANGED <<thresholdVars, optimizerVars, refineVars, requestVars>>

StyleIdle ==
    /\ styleCall = StyleCallIdle
    /\ fusionCache = EmptyMap
    /\ transferred = Null
    /\ transfers = 0

(***************************************************************************)
(* The routes api/amss/generate and api/amss/analyze, and phase 1 of       *)
(* AMSSEngine.generateImage: performDeepSemanticAnalysis.                  *)
(***************************************************************************)
\* most images of a request, most requests
MaxInputs == 2
MaxRequests == 2

\* the `images` of a request body: absent, not an array, or an array
BodyImages ==
    {[given |-> FALSE, isArray |-> FALSE, length |-> 0],
     [given |-> TRUE, isArray |-> FALSE, length |-> 0]}
        \cup {[given |-> TRUE, isArray |-> TRUE, length |-> n] : n \in 0..MaxInputs}

\* the `prompt` of a request body: absent, not a string, "", or a text
BodyPrompts ==
    {[given |-> FALSE, isString |-> FALSE, text |-> ""],
     [given |-> TRUE, isString |-> FALSE, text |-> ""],
     [given |-> TRUE, isString |-> TRUE, text |-> ""],
     [given |-> TRUE, isString |-> TRUE, text |-> "a prompt"]}

\* !images || !Array.isArray(images) || images.length === 0
ImagesRejected(images) == ~images.given \/ ~images.isArray \/ images.length = 0

\* !prompt || typeof prompt !== 'string'
PromptRejected(prompt) == ~prompt.given \/ ~prompt.isString \/ prompt.text = ""

\* the validation of the generate route
GenerateRejects(images, prompt) == ImagesRejected(images) \/ PromptRejected(prompt)

\* the validation of the analyze route: the images only (prompt || '')
AnalyzeRejects(images, prompt) == ImagesRejected(images)

\* what a chat completion the analysis awaits can end as
AnalysisAnswers == {"throws", "empty", "unparsable", "json"}

\* extractSemanticConcepts(input.data) for the k-th input: parsed.concepts
\* (one concept, named after the input), or [] on any failure
extractSemanticConcepts(k, answer) ==
    IF answer = "json" THEN <<[label |-> "concept_" \o ToString(k)]>> ELSE <<>>

\* the map over the responses of extractStyleSignature, every call having
\* resolved: JSON.parse of each content, {} for a response of no content;
\* a content that does not parse throws into the catch, which returns []
StyleSignatureOf(responses) ==
    IF \E k \in DOMAIN responses : responses[k] = "unparsable" THEN <<>>
    ELSE [k \in DOMAIN responses |-> [input |-> k, empty |-> responses[k] = "empty"]]

AmssRequestIdle ==
    [phase |-> "idle", route |-> "", inputs |-> 0, status |-> 0,
     images |-> [given |-> FALSE, isArray |-> FALSE, length |-> 0],
     prompt |-> [given |-> FALSE, isString |-> FALSE, text |-> ""],
     calledInitialize |-> FALSE, backendCalls |-> 0,
     conceptAnswers |-> <<>>, concepts |-> <<>>,
     styleResponses |-> <<>>, styleSignature |-> <<>>, analysed |-> FALSE]

\* the request is validated and the engine ready: performDeepSemanticAnalysis
\* up to its first await, the extractSemanticConcepts of the first input
BeginAnalysis(request) ==
    [request EXCEPT !.phase = "concepts", !.backendCalls = request.backendCalls + 1]

\* a POST up to its first await after request.json()
PostRequest(route, rejects(_, _)) ==
    /\ amssRequest.phase \in {"idle", "answered"}
    /\ amssRequests < MaxRequests
    /\ amssRequests' = amssRequests + 1
    /\ \E images \in BodyImages, prompt \in BodyPrompts :
          LET request == [AmssRequestIdle EXCEPT
                              !.route = route, !.inputs = images.length,
                              !.images = images, !.prompt = prompt,
                              !.conceptAnswers = [k \in 1..images.length |-> "pending"],
                              !.styleResponses = [k \in 1..images.length |-> "pending"]]
          IN  amssRequest' =
                  IF rejects(images, prompt)
                  THEN [request EXCEPT !.phase = "answered", !.status = 400]
                  ELSE IF ~amssZai
                  THEN [request EXCEPT !.phase = "initializing", !.calledInitialize = TRUE]
                  ELSE BeginAnalysis(request)
    /\ UNCHANGED <<amssZai, recommendations, analyzerVars>>
    /\ UNCHANGED <<thresholdVars, optimizerVars, refineVars, fusionVars>>

\* POST api/amss/generate
PostGenerate == PostRequest("generate", GenerateRejects)

\* POST api/amss/analyze
PostAnalyze == PostRequest("analyze", AnalyzeRejects)

\* ZAI.create() of amssEngine.initialize() resolves, or rejects (500)
AmssInitialized ==
    /\ amssRequest.phase = "initializing"
    /\ \E created \in BOOLEAN :
          IF created
          THEN /\ amssZai' = TRUE
               /\ amssRequest' = BeginAnalysis(amssRequest)
          ELSE /\ amssRequest' = [amssRequest EXCEPT !.phase = "answered", !.status = 500]
               /\ UNCHANGED amssZai
    /\ UNCHANGED <<amssRequests, recommendations, analyzerVars>>
    /\ UNCHANGED <<thresholdVars, optimizerVars, refineVars, fusionVars>>

\* the extractSemanticConcepts of one input ends; after the last input
\* extractStyleSignature starts one call per input under Promise.all
ConceptsExtracted ==
    /\ amssRequest.phase = "concepts"
    /\ \E answer \in AnalysisAnswers :
          LET k == Len(SelectSeq(amssRequest.conceptAnswers, LAMBDA a : a # "pending")) + 1
              request == [amssRequest EXCEPT
                              !.conceptAnswers[k] = answer,
                              !.concepts = amssRequest.concepts
                                              \o extractSemanticConcepts(k, answer)]
          IN  amssRequest' =
                  IF k < amssRequest.inputs
                  THEN [request EXCEPT !.backendCalls = request.backendCalls + 1]
                  ELSE [request EXCEPT !.phase = "style",
                                       !.backendCalls = request.backendCalls + request.inputs]
    /\ UNCHANGED <<amssZai, amssRequests, recommendations, analyzerVars>>
    /\ UNCHANGED <<thresholdVars, optimizerVars, refineVars, fusionVars>>

\* extractStyleSignature ends with a value of styleSignature:
\* generateIntentVector is called
StyleExtracted(request, styleSignature) ==
    [request EXCEPT !.phase = "intent", !.styleSignature = styleSignature,
                    !.backendCalls = request.backendCalls + 1]

\* one of the calls under Promise.all ends: a rejection rejects the
\* Promise.all at once (the catch returns []), the last resolution resolves it
StyleAnswered ==
    /\ amssRequest.phase = "style"
    /\ \E k \in 1..amssRequest.inputs, answer \in AnalysisAnswers :
          /\ amssRequest.styleResponses[k] = "pending"
          /\ LET request == [amssRequest EXCEPT !.styleResponses[k] = answer] IN
             amssRequest' =
                 IF answer = "throws" THEN StyleExtracted(request, <<>>)
                 ELSE IF \E j \in 1..request.inputs : request.styleResponses[j] = "pending"
                 THEN request
                 ELSE StyleExtracted(request, StyleSignatureOf(request.styleResponses))
    /\ UNCHANGED <<amssZai, amssRequests, recommendations, analyzerVars>>
    /\ UNCHANGED <<thresholdVars, optimizerVars, refineVars, fusionVars>>

\* generateIntentVector ends (it catches its errors): the analysis is
\* returned, to the analyze route, which answers, or to generateImage
IntentAnswered ==
    /\ amssRequest.phase = "intent"
    /\ amssRequest' =
          IF amssRequest.route = "analyze"
          THEN [amssRequest EXCEPT !.phase = "answered", !.status = 200, !.analysed = TRUE]
          ELSE [amssRequest EXCEPT !.phase = "generating", !.analysed = TRUE]
    /\ UNCHANGED <<amssZai, amssRequests, recommendations, analyzerVars>>
    /\ UNCHANGED <<thresholdVars, optimizerVars, refineVars, fusionVars>>

\* phases 2 to 5 of generateImage end, with a result or with an error
GenerateImageCompletes ==
    /\ amssRequest.phase = "generating"
    /\ \E status \in {200, 500} :
          amssRequest' = [amssRequest EXCEPT !.phase = "answered", !.status = status]
    /\ UNCHANGED <<amssZai, amssRequests, recommendations, analyzerVars>>
    /\ UNCHANGED <<thresholdVars, optimizerVars, refineVars, fusionVars>>

\* ---- SemanticAnalyzer: analyzeImage and its cache

MaxAnalyses == 3
MaxClears == 1

AnalyzedImages == {ImageHeader \o <<"a">>, ImageHeader \o <<"c">>}

\* an options object: its properties in the order they were written
AnalysisOptions ==
    { <<>>,
      << <<"includeStyle", "false">>, <<"includeEmotional", "false">>,
         <<"includeCultural", "true">> >> }

\* const { name = default } = options
RECURSIVE Option(_, _, _)
Option(options, name, default) ==
    IF Len(options) = 0 THEN default
    ELSE IF options[Len(options)][1] = name THEN options[Len(options)][2]
    ELSE Option(SubSeq(options, 1, Len(options) - 1), name, default)

RECURSIVE Properties(_)
Properties(options) ==
    IF Len(options) = 0 THEN ""
    ELSE IF Len(options) = 1 THEN options[1][1] \o ":" \o options[1][2]
    ELSE Properties(SubSeq(options, 1, Len(options) - 1)) \o ","
             \o options[Len(options)][1] \o ":" \o options[Len(options)][2]

\* JSON.stringify(options): the properties the caller wrote, in their order
stringify(options) == "{" \o Properties(options) \o "}"

\* SemanticAnalyzer.generateCacheKey: `${imageData.substring(0, 50)}_${JSON.stringify(options)}`
generateAnalysisCacheKey(imageData, options) ==
    [image |-> substring(imageData, KeyPrefixLen), options |-> stringify(options)]

AnalyzerAnswers == {"throws", "json"}

Undefined == [undefined |-> TRUE]

\* what a helper of analyzeImage makes of the backend's answer; serial tells
\* one backend response from another
Analyzed(answer, serial) ==
    IF answer = "json" THEN [default |-> FALSE, response |-> serial]
    ELSE [default |-> TRUE, response |-> 0]

\* analysisCache.set(key, result) without effect
cacheSetNothing(cache, key, result) == cache

\* a cache that does not keep a result without concepts
cacheSetUnlessDegraded(cache, key, result) ==
    IF result.concepts = <<>> THEN cache
    ELSE [k \in DOMAIN cache \cup {key} |-> IF k = key THEN result ELSE cache[k]]

\* analysisCache.set(key, result)
cacheSet(cache, key, result) ==
    [k \in DOMAIN cache \cup {key} |-> IF k = key THEN result ELSE cache[k]]

AnalysisIdle ==
    [phase |-> "idle", imageData |-> <<>>, options |-> <<>>,
     cacheKey |-> generateAnalysisCacheKey(<<>>, <<>>),
     concepts |-> Undefined, graph |-> Undefined, styleSignature |-> Undefined,
     emotionalProfile |-> Undefined, culturalContext |-> Undefined,
     backendCalls |-> 0, clears |-> 0, result |-> Undefined]

AnalysisResult(call) ==
    [concepts |-> call.concepts, graph |-> call.graph,
     styleSignature |-> call.styleSignature,
     emotionalProfile |-> call.emotionalProfile,
     culturalContext |-> call.culturalContext]

\* the phase after `phase` that the options ask for
AnalysisPhaseAfter(phase, options) ==
    IF phase = "concepts" /\ Option(options, "includeStyle", "true") = "true"
    THEN "style"
    ELSE IF phase \in {"concepts", "style"}
            /\ Option(options, "includeEmotional", "true") = "true"
    THEN "emotional"
    ELSE IF phase \in {"concepts", "style", "emotional"}
            /\ Option(options, "includeCultural", "false") = "true"
    THEN "cultural"
    ELSE "returned"

\* the call goes to its next awaited phase, or builds its result, caches it
\* and returns it
AnalysisGoesOn(call) ==
    LET next == AnalysisPhaseAfter(call.phase, call.options)
        done == [call EXCEPT !.phase = "returned", !.result = AnalysisResult(call)]
    IN  IF next # "returned"
        THEN /\ analysis' = [call EXCEPT !.phase = next]
             /\ UNCHANGED <<analysisCache, analysed>>
        ELSE /\ analysis' = done
             /\ analysisCache' = cacheSet(analysisCache, call.cacheKey, done.result)
             /\ analysed' = Append(analysed, done)

\* analyzeImage(imageData, options), up to its first await
AnalyzeImage ==
    /\ analysis.phase \in {"idle", "returned"}
    /\ Len(analysed) < MaxAnalyses
    /\ \E imageData \in AnalyzedImages, options \in AnalysisOptions :
          LET cacheKey == generateAnalysisCacheKey(imageData, options)
              call == [AnalysisIdle EXCEPT !.imageData = imageData,
                                           !.options = options,
                                           !.cacheKey = cacheKey,
                                           !.clears = cacheStats.clears]
          IN  IF cacheKey \in DOMAIN analysisCache
              THEN LET done == [call EXCEPT !.phase = "returned",
                                            !.result = analysisCache[cacheKey]]
                   IN  /\ analysis' = done
                       /\ analysed' = Append(analysed, done)
              ELSE /\ analysis' = [call EXCEPT !.phase = "concepts"]
                   /\ UNCHANGED analysed
    /\ UNCHANGED <<analysisCache, analyzerBackend, cacheStats>>
    /\ UNCHANGED <<recommendations, amssZai, amssRequest, amssRequests>>
    /\ UNCHANGED <<thresholdVars, optimizerVars, refineVars, fusionVars>>

\* extractConcepts answers, buildSemanticGraph follows
AnalyzerConceptsAnswered ==
    /\ analysis.phase = "concepts"
    /\ \E answer \in AnalyzerAnswers :
          LET concepts == IF answer = "json" THEN <<analyzerBackend + 1>> ELSE <<>>
          IN  AnalysisGoesOn([analysis EXCEPT
                  !.concepts = concepts,
                  !.graph = [totalConcepts |-> Len(concepts)],
                  !.backendCalls = @ + 1])
    /\ analyzerBackend' = analyzerBackend + 1
    /\ UNCHANGED cacheStats
    /\ UNCHANGED <<recommendations, amssZai, amssRequest, amssRequests>>
    /\ UNCHANGED <<thresholdVars, optimizerVars, refineVars, fusionVars>>

\* analyzeStyle answers
AnalyzerStyleAnswered ==
    /\ analysis.phase = "style"
    /\ \E answer \in AnalyzerAnswers :
          AnalysisGoesOn([analysis EXCEPT
              !.styleSignature = Analyzed(answer, analyzerBackend + 1),
              !.backendCalls = @ + 1])
    /\ analyzerBackend' = analyzerBackend + 1
    /\ UNCHANGED cacheStats
    /\ UNCHANGED <<recommendations, amssZai, amssRequest, amssRequests>>
    /\ UNCHANGED <<thresholdVars, optimizerVars, refineVars, fusionVars>>

\* analyzeEmotionalContent answers
AnalyzerEmotionalAnswered ==
    /\ analysis.phase = "emotional"
    /\ \E answer \in AnalyzerAnswers :
          AnalysisGoesOn([analysis EXCEPT
              !.emotionalProfile = Analyzed(answer, analyzerBackend + 1),
              !.backendCalls = @ + 1])
    /\ analyzerBackend' = analyzerBackend + 1
    /\ UNCHANGED cacheStats
    /\ UNCHANGED <<recommendations, amssZai, amssRequest, amssRequests>>
    /\ UNCHANGED <<thresholdVars, optimizerVars, refineVars, fusionVars>>

\* analyzeCulturalContext answers
AnalyzerCulturalAnswered ==
    /\ analysis.phase = "cultural"
    /\ \E answer \in AnalyzerAnswers :
          AnalysisGoesOn([analysis EXCEPT
              !.culturalContext = Analyzed(answer, analyzerBackend + 1),
              !.backendCalls = @ + 1])
    /\ analyzerBackend' = analyzerBackend + 1
    /\ UNCHANGED cacheStats
    /\ UNCHANGED <<recommendations, amssZai, amssRequest, amssRequests>>
    /\ UNCHANGED <<thresholdVars, optimizerVars, refineVars, fusionVars>>

\* getCacheStats()
getCacheStats(cache) == [size |-> Cardinality(DOMAIN cache), keys |-> DOMAIN cache]

\* clearCache(), and getCacheStats() after it
ClearCache ==
    /\ analysis.phase \in {"idle", "returned"}
    /\ cacheStats.clears < MaxClears
    /\ analysisCache' = << >>
    /\ cacheStats' = [stats |-> getCacheStats(analysisCache'),
                      clears |-> cacheStats.clears + 1]
    /\ UNCHANGED <<analysis, analysed, analyzerBackend>>
    /\ UNCHANGED <<recommendations, amssZai, amssRequest, amssRequests>>
    /\ UNCHANGED <<thresholdVars, optimizerVars, refineVars, fusionVars>>

AnalyzerIdle ==
    /\ analysisCache = << >>
    /\ analysis = AnalysisIdle
    /\ analysed = <<>>
    /\ analyzerBackend = 0
    /\ cacheStats = [stats |-> getCacheStats(<< >>), clears |-> 0]

RequestsIdle ==
    /\ AnalyzerIdle
    /\ recommendations = [answered |-> FALSE, data |-> <<>>]
    /\ amssZai = FALSE
    /\ amssRequest = AmssRequestIdle
    /\ amssRequests = 0

RefineIdle ==
    /\ StyleIdle
    /\ RequestsIdle
    /\ refinement = RefinementIdle
    /\ returned = Null
    /\ qualityHistory = <<>>
    /\ refinementHistory = <<>>
    /\ pipeline = PipelineIdle
    /\ concurrent = RefinementIdle
    /\ concurrentReturned = Null
    /\ selection = SelectionIdle
    /\ generation = GenerationIdle

ThresholdsIdle ==
    /\ evalMetric = "processingSpeed"
    /\ evalValue = 0
    /\ evalOutcome = Null
    /\ prevValue = 0
    /\ prevOutcome = Null

Init == OptimizerConstructed /\ ThresholdsIdle /\ RefineIdle

Next ==
    \/ RequestInitialize
    \/ InitializeCompletes
    \/ InitializeFails
    \/ Start
    \/ Stop
    \/ Configure
    \/ ClearHistory
    \/ ForceOptimization
    \/ TimerTick
    \/ ExecuteOptimization
    \/ UpdatePredictionModel

Spec == Init /\ [][Next]_vars

(***************************************************************************)
(* SpecCycles: one optimizer object, constructed with any configuration,   *)
(* initialized and then driven by its timer alone, on measured metrics.    *)
(***************************************************************************)
InitCycles ==
    /\ \E c \in ConstructorConfigs : RealTimeOptimizer(c)
    /\ ThresholdsIdle
    /\ RefineIdle

NextCycles ==
    \/ RequestInitialize
    \/ InitializeCompletes
    \/ TimerTickMeasured
    \/ ExecuteOptimization
    \/ UpdatePredictionModel

SpecCycles == InitCycles /\ [][NextCycles]_vars

(***************************************************************************)
(* SpecLearning: SpecCycles with the configure request, which may switch   *)
(* adaptiveLearning while a cycle is in flight.                            *)
(***************************************************************************)
NextLearning ==
    \/ NextCycles
    \/ Configure

SpecLearning == InitCycles /\ [][NextLearning]_vars

\* a cycle that ends in this step
CycleInFlightEnds(no) == no \in DOMAIN cycles /\ no \notin DOMAIN cycles'

\* a cycle that begins to await the model-update backend call in this step
CycleBeginsModelUpdate(no) ==
    /\ no \in DOMAIN cycles' /\ cycles'[no].awaiting = "model"
    /\ no \notin DOMAIN cycles \/ cycles[no].awaiting # "model"

\* C26: predictionModel is modified only by a cycle that runs with
\* adaptiveLearning enabled; a cycle run with adaptiveLearning disabled
\* leaves it unchanged; a failed model-update call leaves it unchanged, the
\* cycle ends normally and keeps the results it recorded.
C26_ModelOnlyByLearningCycle ==
    [][ /\ predictionModel' # predictionModel
           => /\ UpdatePredictionModel
              /\ faults' = faults
              /\ \E no \in DOMAIN cycles : CycleInFlightEnds(no) /\ cycles[no].awaiting = "model"
        /\ \A no \in 1..MaxCycles :
              /\ CycleBeginsModelUpdate(no) => config.adaptiveLearning
              /\ CycleInFlightEnds(no) /\ cycles[no].awaiting # "model"
                 => ~config.adaptiveLearning /\ predictionModel' = predictionModel
              /\ cycleCount' = no /\ cycleCount # no /\ no \notin DOMAIN cycles'
                    /\ faults' = faults
                 => ~config.adaptiveLearning /\ predictionModel' = predictionModel
        /\ UpdatePredictionModel /\ faults' # faults
           => /\ predictionModel' = predictionModel
              /\ optimizationHistory' = optimizationHistory
              /\ metricsHistory' = metricsHistory
              /\ feedbackLoops' = feedbackLoops
              /\ recorded' = recorded
              /\ ~isOptimizing'
              /\ \E no \in DOMAIN cycles : CycleInFlightEnds(no) ]_vars

\* the second cycle's model update failed after its optimizations were
\* recorded: the model of the first cycle is kept
C26_Witness ==
    /\ cycleCount = 2
    /\ DOMAIN cycles = {}
    /\ ~isOptimizing
    /\ faults = 1
    /\ Len(metricsHistory) = 2
    /\ Len(recorded) >= 2
    /\ \A i \in 1..Len(recorded) : recorded[i].success
    /\ recorded[Len(recorded)].loop[1] = 2
    /\ predictionModel = [lastUpdated |-> 1]

(***************************************************************************)
(* SpecHistory: the singleton after HistoryPrefill timer cycles, each of   *)
(* which found the one breach of SampleHighest and executed it; from there *)
(* the timer goes on and history is cleared on request.                    *)
(***************************************************************************)
\* the number of the j-th of the past cycles (the coming ones count from 1)
PastCycle(j) == j - HistoryPrefill - 1

PastLoop(j) ==
    LET opportunities == identifyOptimizationOpportunities(SampleHighest, PastCycle(j), j - 1)
        feedbackLoop == opportunities[1]
    IN  [feedbackLoop EXCEPT
            !.result = executeOptimization(feedbackLoop, [throws |-> FALSE, factor |-> 100])]

InitHistory ==
    /\ zai = TRUE
    /\ initPending = 0
    /\ timers = 1
    /\ config = DefaultConfig
    /\ isOptimizing = FALSE
    /\ cycles = EmptyMap
    /\ cycleCount = 0
    /\ feedbackLoops =
          [id \in {PastLoop(j).id : j \in 1..HistoryPrefill} |->
              PastLoop(CHOOSE j \in 1..HistoryPrefill : PastLoop(j).id = id)]
    /\ optimizationHistory = [j \in 1..HistoryPrefill |-> PastLoop(j).result]
    /\ metricsHistory = [j \in 1..HistoryPrefill |-> [cycle |-> PastCycle(j)]]
    /\ predictionModel = [lastUpdated |-> PastCycle(HistoryPrefill)]
    /\ faults = 0
    /\ recorded = [j \in 1..HistoryPrefill |-> PastLoop(j).result]
    /\ ThresholdsIdle
    /\ RefineIdle

NextHistory ==
    \/ TimerTick
    \/ ExecuteOptimization
    \/ UpdatePredictionModel
    \/ ClearHistory

SpecHistory == InitHistory /\ [][NextHistory]_vars

(***************************************************************************)
(* SpecRecommend: the singleton driven by its timer, recommendations       *)
(* being asked for at any moment, on the drawn metrics and on the          *)
(* measured ones of SpecCycles.                                            *)
(***************************************************************************)
NextRecommend ==
    \/ RequestInitialize
    \/ InitializeCompletes
    \/ TimerTick
    \/ ExecuteOptimization
    \/ UpdatePredictionModel
    \/ GetRecommendationsMeasured

SpecRecommend == Init /\ [][NextRecommend]_vars

Count(list, x) == Cardinality({k \in 1..Len(list) : list[k] = x})

\* C21: getRecommendations() executes nothing and leaves optimizationHistory,
\* metricsHistory, the feedback-loop map, predictionModel, config and
\* isOptimizing unchanged, in every state; what it returns is the breaches
\* of freshly collected metrics in descending priority.
C21_RecommendationsOnlyRead ==
    [][ GetRecommendationsMeasured =>
          /\ UNCHANGED <<optimizationHistory, metricsHistory, feedbackLoops,
                         predictionModel, config, isOptimizing, cycles, recorded>>
          /\ recommendations'.answered
          /\ \A i, j \in 1..Len(recommendations'.data) :
                i < j => recommendations'.data[i].priority >= recommendations'.data[j].priority
          /\ \E m \in MeasuredMetrics :
                LET breaches ==
                        SelectSeq([k \in 1..Len(DetectionOrder) |->
                                      evaluateMetric(DetectionOrder[k].metric,
                                                     m[DetectionOrder[k].category]
                                                      [DetectionOrder[k].metric],
                                                     DetectionOrder[k].category, <<0, k>>,
                                                     Cardinality(DOMAIN feedbackLoops))],
                                  LAMBDA loop : loop # Null)
                    expected == [k \in 1..Len(breaches) |-> Recommendation(breaches[k])]
                IN  /\ Len(recommendations'.data) = Len(expected)
                    /\ \A k \in 1..Len(expected) :
                          Count(recommendations'.data, expected[k])
                              = Count(expected, expected[k]) ]_vars

C21_Witness ==
    /\ recommendations.answered
    /\ Len(recommendations.data) >= 2
    /\ recommendations.data[1].priority
         > recommendations.data[Len(recommendations.data)].priority
    /\ isOptimizing
    /\ \E no \in DOMAIN cycles : cycles[no].pos > 1

(***************************************************************************)
(* SpecRoutes: requests to the generate and analyze routes, one after the  *)
(* other, on the amssEngine singleton.                                     *)
(***************************************************************************)
NextRoutes ==
    \/ PostGenerate
    \/ PostAnalyze
    \/ AmssInitialized
    \/ ConceptsExtracted
    \/ StyleAnswered
    \/ IntentAnswered
    \/ GenerateImageCompletes

SpecRoutes == Init /\ [][NextRoutes]_vars

\* C22: a generate or analyze request with an empty or missing input list,
\* or with a missing prompt, is rejected with a validation error before the
\* engine is initialized and before any backend call is made.
C22_InvalidRequestRejected ==
    /\ amssRequest.phase # "idle"
    /\ \/ ~amssRequest.images.given
       \/ amssRequest.images.isArray /\ amssRequest.images.length = 0
       \/ ~amssRequest.prompt.given
    => /\ amssRequest.phase = "answered"
       /\ amssRequest.status = 400
       /\ ~amssRequest.calledInitialize
       /\ amssRequest.backendCalls = 0

\* C23: in the semantic analysis of several inputs a backend failure for one
\* input affects that input's contribution only: the concepts and the style
\* signatures obtained for the other inputs are in the analysis result.
C23_FailureIsolatedPerInput ==
    amssRequest.analysed =>
        \A k \in 1..amssRequest.inputs :
            /\ amssRequest.conceptAnswers[k] = "json" =>
                  \E i \in 1..Len(amssRequest.concepts) :
                      amssRequest.concepts[i].label = "concept_" \o ToString(k)
            /\ amssRequest.styleResponses[k] = "json" =>
                  \E i \in 1..Len(amssRequest.styleSignature) :
                      /\ amssRequest.styleSignature[i].input = k
                      /\ ~amssRequest.styleSignature[i].empty


(***************************************************************************)
(* SpecAnalyzer: analyzeImage calls on the semanticAnalyzer singleton, one *)
(* after the other, with clearCache() calls between them.                  *)
(***************************************************************************)
NextAnalyzer ==
    \/ AnalyzeImage
    \/ AnalyzerConceptsAnswered
    \/ AnalyzerStyleAnswered
    \/ AnalyzerEmotionalAnswered
    \/ AnalyzerCulturalAnswered
    \/ ClearCache

SpecAnalyzer == Init /\ [][NextAnalyzer]_vars

\* C24: a second analyzeImage call with the same image data and the same
\* options returns the first call's result without a backend call; only a
\* returning analyzeImage adds cache entries and only clearCache() removes
\* them; after clearCache() the cache size is 0 and the next analyzeImage
\* call contacts the backend again.
C24_CacheServesRepeatedCalls ==
    /\ \A i \in 1..Len(analysed) : \A j \in (i + 1)..Len(analysed) :
          /\ analysed[i].imageData = analysed[j].imageData
          /\ analysed[i].options = analysed[j].options
          /\ analysed[i].clears = analysed[j].clears
          => /\ analysed[j].result = analysed[i].result
             /\ analysed[j].backendCalls = 0
    /\ \A j \in 1..Len(analysed) :
          /\ analysed[j].clears > 0
          /\ j = 1 \/ analysed[j - 1].clears < analysed[j].clears
          => analysed[j].backendCalls > 0
    /\ cacheStats.clears > 0 => cacheStats.stats.size = 0
    /\ \A j \in 1..Len(analysed) :
          analysed[j].clears = cacheStats.clears
          => analysed[j].cacheKey \in DOMAIN analysisCache
    /\ \A key \in DOMAIN analysisCache :
          \E j \in 1..Len(analysed) :
              /\ analysed[j].cacheKey = key
              /\ analysed[j].clears = cacheStats.clears
              /\ analysed[j].backendCalls > 0
              /\ analysed[j].result = analysisCache[key]

\* C34: when the backend fails during an analyzeImage call, the degraded
\* result (no concepts, the default style signature) is cached, and every
\* later call with the same key returns it without a backend call, until
\* clearCache() is called.
C34_DegradedResultStaysCached ==
    \A i \in 1..Len(analysed) :
        /\ analysed[i].backendCalls > 0
        /\ analysed[i].result.concepts = <<>>
        /\ analysed[i].result.styleSignature \in {Undefined, Analyzed("throws", 0)}
        => /\ analysed[i].clears = cacheStats.clears
              => /\ analysed[i].cacheKey \in DOMAIN analysisCache
                 /\ analysisCache[analysed[i].cacheKey] = analysed[i].result
           /\ \A j \in (i + 1)..Len(analysed) :
                 analysed[j].cacheKey = analysed[i].cacheKey
                 => IF analysed[j].clears = analysed[i].clears
                    THEN /\ analysed[j].result = analysed[i].result
                         /\ analysed[j].backendCalls = 0
                    ELSE (\A k \in (i + 1)..(j - 1) :
                              analysed[k].cacheKey # analysed[i].cacheKey)
                         => analysed[j].backendCalls > 0

\* a call whose backend calls all failed, the same call served from the
\* cache, and after clearCache() the same call with an answering backend
C34_Witness ==
    /\ Len(analysed) = 3
    /\ analysed[1].options = <<>>
    /\ analysed[1].backendCalls = 3
    /\ analysed[1].result.concepts = <<>>
    /\ analysed[1].result.styleSignature = Analyzed("throws", 0)
    /\ analysed[2].cacheKey = analysed[1].cacheKey
    /\ analysed[2].clears = 0
    /\ analysed[2].backendCalls = 0
    /\ analysed[2].result = analysed[1].result
    /\ analysed[3].cacheKey = analysed[1].cacheKey
    /\ analysed[3].clears = 1
    /\ analysed[3].backendCalls = 3
    /\ analysed[3].result.concepts # <<>>
    /\ ~analysed[3].result.styleSignature.default

\* C33: a cached result is returned only to a request equal to the one that
\* produced it: a call served from the cache has the image data of the
\* call whose result it is given, even when two images share their first
\* 50 characters.
C33_CacheHitOnlyForSameImage ==
    \A i \in 1..Len(analysed) : \A j \in (i + 1)..Len(analysed) :
        /\ analysed[j].backendCalls = 0
        /\ analysed[i].backendCalls > 0
        /\ analysed[i].cacheKey = analysed[j].cacheKey
        /\ analysed[i].clears = analysed[j].clears
        => analysed[i].imageData = analysed[j].imageData

C24_Witness ==
    /\ Len(analysed) = 3
    /\ analysed[1].imageData = analysed[2].imageData
    /\ analysed[1].options = analysed[2].options
    /\ analysed[1].clears = 0 /\ analysed[2].clears = 0
    /\ analysed[1].backendCalls = 3
    /\ analysed[2].backendCalls = 0
    /\ analysed[3].imageData = analysed[1].imageData
    /\ analysed[3].options = analysed[1].options
    /\ analysed[3].clears = 1
    /\ analysed[3].backendCalls = 3
    /\ analysed[3].result # analysed[1].result

(***************************************************************************)
(* SpecRefine: one call of refineImage on the singleton engine; the        *)
(* backend answers every assessment it is asked for.                       *)
(* SpecLoops: the call next to one call of iterativeRefinement.            *)
(***************************************************************************)
NextRefine ==
    \/ RefineImage
    \/ InitialAssessed
    \/ Assessed

SpecRefine ==
    /\ Init
    /\ [][NextRefine]_vars
    /\ WF_vars(InitialAssessed)
    /\ WF_vars(Assessed)

\* SpecFallback: one call of refineImage with techniques of the caller
NextFallback ==
    \/ NextRefine
    \/ ApplyRejects
    \/ ApplyRefines

SpecFallback == Init /\ [][NextFallback]_vars

\* C35: if applying the selected technique fails the iteration goes on: the
\* basic-enhancement fallback gives the image (the unchanged input when its
\* backend call fails too), the step records techniquesApplied =
\* ['basic-enhancement'], quality is assessed again and the iteration
\* counter advances by one.
C35_FallbackKeepsIteration ==
    [][ /\ ApplyRejects
           => /\ refinement'.phase = "assessing"
              /\ refinement'.iteration = refinement.iteration
              /\ refinement'.steps = refinement.steps
              /\ refinement.applied' = "fallback failed"
                    => refinement'.output = refinement.image
              /\ returned' = returned
        /\ Assessed /\ refinement.applied \in {"fallback", "fallback failed"}
           => LET step == refinement'.steps[Len(refinement'.steps)] IN
              /\ Len(refinement'.steps) = Len(refinement.steps) + 1
              /\ step.techniquesApplied = <<"basic-enhancement">>
              /\ step.inputImage = refinement.image
              /\ step.outputImage = refinement.image
              /\ step.iteration = refinement.iteration
              /\ refinement'.assessments = refinement.assessments + 1
              /\ refinement'.iteration = refinement.iteration + 1
              /\ refinement'.currentQuality = step.qualityAfter ]_vars

\* a call returned after a technique made an image in its first iteration
\* and the technique of its second iteration failed, its fallback too
C35_Witness ==
    /\ returned # Null
    /\ Len(returned.steps) >= 2
    /\ returned.steps[1].outputImage # returned.steps[1].inputImage
    /\ returned.steps[2].techniquesApplied = <<"basic-enhancement">>
    /\ returned.steps[2].outputImage = returned.steps[1].outputImage
    /\ refinement.applied = "fallback failed"
    /\ refinement.iteration = 2

\* C36: in the steps refineImage returns, steps[i].iteration = i; the first
\* step starts from the initial assessment and the initial image; every
\* later step starts from the qualityAfter and the outputImage of the step
\* before it; and with at least one step the returned quality and finalImage
\* are the last step's qualityAfter and outputImage.
C36_StepsChain ==
    returned # Null =>
        LET steps == returned.steps IN
        /\ \A i \in 1..Len(steps) : steps[i].iteration = i - 1
        /\ Len(steps) >= 1 =>
              /\ steps[1].qualityBefore = qualityHistory[1]
              /\ steps[1].inputImage = InitialImage
              /\ returned.quality = steps[Len(steps)].qualityAfter
              /\ returned.finalImage = steps[Len(steps)].outputImage
        /\ \A i \in 1..(Len(steps) - 1) :
              /\ steps[i + 1].qualityBefore = steps[i].qualityAfter
              /\ steps[i + 1].inputImage = steps[i].outputImage

\* a call returned with two steps, each with a new image and another quality
C36_Witness ==
    /\ returned # Null
    /\ Len(returned.steps) >= 2
    /\ returned.steps[1].outputImage # InitialImage
    /\ returned.steps[2].outputImage # returned.steps[1].outputImage
    /\ returned.steps[1].qualityAfter # returned.steps[1].qualityBefore
    /\ returned.steps[2].qualityAfter # returned.steps[2].qualityBefore

\* SpecSelect: selectBestTechnique on every non-empty list of techniques
NextSelect ==
    \/ TechniquesOffered
    \/ SelectBestTechnique

SpecSelect == Init /\ [][NextSelect]_vars

NextPipeline ==
    \/ IterativeRefinementFused
    \/ RefinementStep
    \/ AssessAndOptimize

SpecPipeline == Init /\ [][NextPipeline]_vars

\* C39: in the iterative refinement of generateImage qualityScore,
\* semanticCoherence and aestheticScore never decrease from one step to the
\* next and never exceed 1.0; the result's iteration counter is the number
\* of refinement steps performed, which is the length of
\* metadata.refinementHistory; and the final qualityScore is
\* min(1.0, refined qualityScore + 0.05).
C39_RefinementIsMonotoneAndCounted ==
    [][ /\ pipeline'.qualityScore <= 1000
        /\ pipeline'.semanticCoherence <= 10000
        /\ pipeline'.aestheticScore <= 10000
        /\ pipeline'.iteration = Len(pipeline'.refinementHistory)
        /\ RefinementStep
           => /\ pipeline'.qualityScore >= pipeline.qualityScore
              /\ pipeline'.semanticCoherence >= pipeline.semanticCoherence
              /\ pipeline'.aestheticScore >= pipeline.aestheticScore
              /\ pipeline'.iteration = pipeline.iteration + 1
              /\ Len(pipeline'.refinementHistory) = Len(pipeline.refinementHistory) + 1
        /\ AssessAndOptimize
           => /\ pipeline'.qualityScore = Min(1000, pipeline.qualityScore + 50)
              /\ pipeline'.qualityScore >= pipeline.qualityScore
              /\ pipeline'.semanticCoherence = pipeline.semanticCoherence
              /\ pipeline'.aestheticScore = pipeline.aestheticScore
              /\ pipeline'.iteration = pipeline.iteration
              /\ pipeline'.refinementHistory = pipeline.refinementHistory ]_vars

\* a generation optimized after three refinement steps, in which the
\* aestheticScore reached 1.0 and the qualityScore did not
C39_Witness ==
    /\ pipeline.phase = "optimized"
    /\ pipeline.iteration = 3
    /\ Len(pipeline.refinementHistory) = 3
    /\ pipeline.aestheticScore = 10000
    /\ pipeline.semanticCoherence < 10000
    /\ pipeline.qualityScore < 1000
    /\ pipeline.qualityScore
          = pipeline.refinementHistory[Len(pipeline.refinementHistory)].quality + 50

\* SpecSessions: two calls of refineImage on the singleton engine, the second
\* started at any time
NextSessions ==
    \/ NextRefine
    \/ ConcurrentRefineImage
    \/ ConcurrentInitialAssessed
    \/ ConcurrentAssessed

SpecSessions == Init /\ [][NextSessions]_vars

\* what getStats().qualityHistory is to hold when a call returns `result`
SessionQualities(result) ==
    <<IF Len(result.steps) = 0 THEN result.quality ELSE result.steps[1].qualityBefore>>
        \o [k \in 1..Len(result.steps) |-> result.steps[k].qualityAfter]

\* C29: when refineImage sessions on the shared engine overlap, then after
\* each session returns the engine's qualityHistory is exactly that
\* session's initial quality followed by the qualityAfter of each of its
\* steps, and holds no entry of another session.
C29_HistoryOwnedBySession ==
    [][ /\ refinement.phase # "returned" /\ refinement'.phase = "returned"
           => qualityHistory' = SessionQualities(returned')
        /\ concurrent.phase # "returned" /\ concurrent'.phase = "returned"
           => qualityHistory' = SessionQualities(concurrentReturned') ]_vars

NextLoops ==
    \/ RefineImage
    \/ InitialAssessed
    \/ Assessed
    \/ IterativeRefinement
    \/ RefinementStep

SpecLoops == Init /\ [][NextLoops]_vars

(***************************************************************************)
(* SpecEnsemble: one generateImage through generateEnsemble and            *)
(* adaptiveFusion, every model answering or failing.                       *)
(***************************************************************************)
NextEnsemble ==
    \/ GenerateEnsemble
    \/ GenerateWithModel

SpecEnsemble == Init /\ [][NextEnsemble]_vars

Range(list) == {list[i] : i \in 1..Len(list)}

\* C12: generateImage attempts the models 0 .. min(ensembleSize, roster) - 1
\* in roster order whatever fails; the fused result's modelsUsed is exactly
\* the set of models that succeeded; and the request fails with the
\* no-candidates error if and only if every attempted model failed (or none
\* was attempted).
C12_EnsembleSurvivesFailures ==
    LET attempts == Min(generation.ensembleSize, Len(models))
        over == generation.phase \in {"fused", "failed"}
    IN  /\ Len(generation.attempted) <= attempts
        /\ generation.attempted = SubSeq(models, 1, Len(generation.attempted))
        /\ generation.phase = "generating" =>
              /\ Len(generation.attempted) = generation.i + 1
              /\ generation.failures \subseteq Range(generation.attempted)
        /\ over =>
              /\ Len(generation.attempted) = attempts
              /\ generation.phase = "failed" <=>
                    Range(generation.attempted) \subseteq generation.failures
              /\ generation.phase = "failed" =>
                    generation.error = NoEnsembleError /\ generation.fused = Null
              /\ generation.phase = "fused" =>
                    Range(generation.fused.modelsUsed)
                        = Range(generation.attempted) \ generation.failures

C12_Witness ==
    /\ generation.phase = "fused"
    /\ generation.failures = {models[2]}
    /\ Range(generation.fused.modelsUsed) = {models[1], models[3]}

\* C15: adaptiveFusion takes as base the candidate of highest qualityScore,
\* the lowest ensemble index winning ties; the fused result carries that
\* candidate's imageData and three scores, and its modelsUsed is the
\* duplicate-free union of the candidates' model identifiers.
C15_FusionBaseIsBestCandidate ==
    generation.phase = "fused" =>
        LET candidates == generation.ensemble
            fused == generation.fused
        IN  /\ \E k \in 1..Len(candidates) :
                  /\ \A j \in 1..Len(candidates) :
                        candidates[j].qualityScore <= candidates[k].qualityScore
                  /\ \A j \in 1..(k - 1) :
                        candidates[j].qualityScore < candidates[k].qualityScore
                  /\ fused.imageData = candidates[k].imageData
                  /\ fused.qualityScore = candidates[k].qualityScore
                  /\ fused.semanticCoherence = candidates[k].semanticCoherence
                  /\ fused.aestheticScore = candidates[k].aestheticScore
            /\ Range(fused.modelsUsed)
                  = UNION {Range(candidates[j].modelsUsed) : j \in 1..Len(candidates)}
            /\ Cardinality(Range(fused.modelsUsed)) = Len(fused.modelsUsed)

C15_Witness ==
    /\ generation.phase = "fused"
    /\ Len(generation.ensemble) = 3
    /\ generation.ensemble[1].qualityScore < generation.ensemble[2].qualityScore
    /\ generation.ensemble[2].qualityScore = generation.ensemble[3].qualityScore
    /\ generation.ensemble[2].semanticCoherence # generation.ensemble[3].semanticCoherence
    /\ generation.fused.semanticCoherence = generation.ensemble[2].semanticCoherence

(***************************************************************************)
(* SpecStyle: transferStyle calls one after the other on one engine.       *)
(***************************************************************************)
NextStyle ==
    \/ TransferStyle
    \/ StyleAnalyzed
    \/ ContentAnalyzed
    \/ TransferCompletes

SpecStyle == Init /\ [][NextStyle]_vars

(***************************************************************************)
(* SpecRegions: transferStyle calls whose styles may be simple and whose   *)
(* content has a region of complexity 0.                                   *)
(***************************************************************************)
NextRegions ==
    \/ TransferStyle
    \/ StyleAnalyzedSimple
    \/ ContentAnalyzedFlat
    \/ TransferCompletes

SpecRegions == Init /\ [][NextRegions]_vars

\* C27: for every region and every non-empty list of style profiles the
\* dominantStyle is a profile of maximal score, the score being 0.3 for an
\* equal mood plus 0.2 for |profile.complexity - region.complexity| < 0.3
\* plus 0.2 x adaptability, the first profile winning ties; the region's
\* blend weights hold an entry for every profile.
C27_DominantStyleHasBestScore ==
    styleCall.phase = "transferring" =>
        \A r \in 1..Len(styleCall.contentAnalysis) :
            LET region == styleCall.contentAnalysis[r]
                profiles == styleCall.styleProfiles
                fusionRegion == styleCall.fusionMap.regions[r]
                score(k) ==
                    (IF profiles[k].mood = region.mood THEN 300 ELSE 0)
                    + (IF region.complexityGiven
                          /\ Abs(profiles[k].complexity - region.complexity) < 30
                       THEN 200 ELSE 0)
                    + profiles[k].adaptability * 2
            IN  /\ \E k \in 1..Len(profiles) :
                      /\ fusionRegion.dominantStyle = profiles[k].id
                      /\ \A j \in 1..Len(profiles) : score(j) <= score(k)
                      /\ \A j \in 1..(k - 1) : score(j) < score(k)
                /\ DOMAIN fusionRegion.blendWeights
                      = {profiles[k].id : k \in 1..Len(profiles)}

(***************************************************************************)
(* SpecMoods: transferStyle calls whose styles differ in mood.             *)
(***************************************************************************)
NextMoods ==
    \/ TransferStyle
    \/ StyleAnalyzedMoods
    \/ ContentAnalyzedFlat
    \/ TransferCompletes

SpecMoods == Init /\ [][NextMoods]_vars

\* C38: in every FusionRegion of a FusionMap the dominantStyle has the
\* largest blend weight of the region: no other style profile has a
\* strictly larger entry in the region's blendWeights.
C38_DominantStyleHasLargestWeight ==
    styleCall.phase = "transferring" =>
        \A r \in 1..Len(styleCall.fusionMap.regions) :
            LET fusionRegion == styleCall.fusionMap.regions[r]
                weights == fusionRegion.blendWeights
                Larger(x, y) ==
                    x.den # 0 /\ y.den # 0 /\ x.num * y.den > y.num * x.den
            IN  \A id \in DOMAIN weights :
                    ~Larger(weights[id], weights[fusionRegion.dominantStyle])

One == Fraction(1, 1)

\* C13: every FusionRegion generateFusionMap produces, for a non-empty list
\* of style profiles and a strength in [0,1], has a blend-weight map with
\* one entry per style profile whose values sum to 1, and the region's row
\* of the blend matrix holds the same values.
C13_BlendWeightsSumToOne ==
    styleCall.phase = "transferring" =>
        LET fusionMap == styleCall.fusionMap
            profiles == styleCall.styleProfiles
        IN  \A r \in 1..Len(fusionMap.regions) :
               LET weights == fusionMap.regions[r].blendWeights IN
               /\ DOMAIN weights = {profiles[k].id : k \in 1..Len(profiles)}
               /\ Cardinality(DOMAIN weights) = Len(profiles)
               /\ FractionSum([k \in 1..Len(profiles) |-> weights[profiles[k].id]]) = One
               /\ fusionMap.blendWeights[r]
                     = [k \in 1..Len(profiles) |-> weights[profiles[k].id]]

\* C14: a transferStyle call with N >= 1 style images returns a FusionMap
\* whose styleDistribution has exactly the N entries style_0 .. style_{N-1},
\* their values summing to 1, whatever the strength and whichever style
\* analyses failed.
C14_StyleDistributionPerImage ==
    transferred # Null =>
        LET N == Len(transferred.request.styleImages)
            styleDistribution == transferred.result.fusionMap.styleDistribution
        IN  /\ DOMAIN styleDistribution = {StyleId(index) : index \in 0..(N - 1)}
            /\ FractionSum([k \in 1..N |-> styleDistribution[StyleId(k - 1)]]) = One

(***************************************************************************)
(* Properties of the refinement loops.                                     *)
(***************************************************************************)
\* C3: for every call of refineImage, any maxIterations >= 0 and any
\* sequence of assessments, the number of iterations performed (the number
\* of recorded steps) never exceeds maxIterations, and the call terminates.
C3_StepsBoundedAndTerminates ==
    /\ [](/\ refinement.iteration = Len(refinement.steps)
          /\ Len(refinement.steps) <= refinement.config.maxIterations
          /\ refinement.applications <= refinement.config.maxIterations
          /\ returned # Null => Len(returned.steps) <= refinement.config.maxIterations)
    /\ (refinement.phase # "idle") ~> (refinement.phase = "returned")

C3_Witness ==
    /\ refinement.phase = "returned"
    /\ refinement.config.maxIterations >= 2
    /\ Len(returned.steps) = refinement.config.maxIterations
    /\ ~returned.converged

\* the latest assessment of an iteration of refineImage reached the threshold
RefinementReached(r) ==
    /\ r.steps # <<>>
    /\ r.steps[Len(r.steps)].qualityAfter.overall >= r.config.qualityThreshold

\* the latest step of iterativeRefinement reached the threshold
PipelineReached(p) ==
    /\ p.refinementHistory # <<>>
    /\ p.refinementHistory[Len(p.refinementHistory)].quality >= p.qualityThreshold

\* C4: once the overall quality reaches qualityThreshold at iteration k, the
\* loop is over at k, in refineImage and in iterativeRefinement alike: the
\* call has returned the k steps, and no further technique is applied, no
\* further assessment made and no further step recorded.
C4_StopsWhenThresholdReached ==
    [][ /\ RefinementReached(refinement) =>
              /\ refinement.phase = "returned"
              /\ returned.steps = refinement.steps
              /\ returned.converged
              /\ UNCHANGED <<refinement, returned, qualityHistory, refinementHistory>>
        /\ RefinementReached(refinement') =>
              /\ refinement'.phase = "returned"
              /\ returned'.steps = refinement'.steps
        /\ PipelineReached(pipeline) => pipeline.phase = "done" /\ UNCHANGED pipeline
        /\ PipelineReached(pipeline') => pipeline'.phase = "done" ]_vars

C4_Witness ==
    /\ RefinementReached(refinement)
    /\ refinement.phase = "returned"
    /\ Len(refinement.steps) < refinement.config.maxIterations
    /\ \E k \in 1..Len(initializeTechniques) :
          applicability(initializeTechniques[k], refinement.currentQuality)
    /\ PipelineReached(pipeline)
    /\ pipeline.phase = "done"
    /\ Len(pipeline.refinementHistory) < pipeline.refinementSteps

\* C25: the refinement iterations generateImage performs never exceed the
\* effective maxIterations (request options over engine configuration).
C25_IterationsWithinMaxIterations ==
    Len(pipeline.refinementHistory) <= pipeline.maxIterations

\* C5: refineImage never returns a quality.overall lower than the overall
\* of the initial assessment of the input image, failed assessments included.
C5_NeverBelowInitial ==
    returned # Null => returned.quality.overall >= qualityHistory[1].overall

\* C28: the totalImprovement refineImage returns is the last step's
\* qualityAfter.overall minus the overall of the initial assessment (the
\* first step's qualityBefore.overall), that is the returned quality.overall
\* minus the initial overall, and 0 when no step was performed.
C28_TotalImprovementIsEndMinusStart ==
    returned # Null =>
        LET steps == returned.steps IN
        /\ Len(steps) = 0 => returned.totalImprovement = 0
        /\ Len(steps) > 0 =>
              /\ steps[1].qualityBefore = qualityHistory[1]
              /\ steps[Len(steps)].qualityAfter = returned.quality
              /\ returned.totalImprovement
                    = steps[Len(steps)].qualityAfter.overall - steps[1].qualityBefore.overall
        /\ returned.totalImprovement
              = returned.quality.overall - qualityHistory[1].overall

C28_Witness ==
    /\ returned # Null
    /\ Len(returned.steps) >= 2
    /\ returned.totalImprovement # 0
    /\ returned.steps[Len(returned.steps)].qualityBefore.overall
          # returned.steps[1].qualityBefore.overall

\* C16: refineImage returns converged = true if and only if the returned
\* quality.overall is at least qualityThreshold, whatever the initial
\* quality, the applicable techniques and maxIterations.
C16_ConvergedIffThresholdMet ==
    returned # Null =>
        (returned.converged <=>
            returned.quality.overall >= refinement.config.qualityThreshold)

HasApplicable(quality) ==
    \E k \in 1..Len(initializeTechniques) : applicability(initializeTechniques[k], quality)

\* the threshold was not reached by any iteration made so far, and a
\* technique was applicable at the start of each of the maxIterations
\* iterations begun so far
NeverReached ==
    /\ \A k \in 2..Len(qualityHistory) :
          qualityHistory[k].overall < refinement.config.qualityThreshold
    /\ \A k \in 1..Len(qualityHistory) :
          k <= refinement.config.maxIterations => HasApplicable(qualityHistory[k])

\* C17: when the threshold is not reached within maxIterations iterations, a
\* technique being applicable at every one, refineImage returns with
\* converged = false, exactly maxIterations steps and the quality of the last
\* assessment.
C17_ExhaustionReturnsNormally ==
    refinement.phase = "returned" /\ NeverReached =>
        /\ returned # Null
        /\ ~returned.converged
        /\ Len(returned.steps) = refinement.config.maxIterations
        /\ Len(qualityHistory) = refinement.config.maxIterations + 1
        /\ returned.quality = qualityHistory[Len(qualityHistory)]
        /\ \A k \in 1..Len(returned.steps) :
              /\ returned.steps[k].iteration = k - 1
              /\ returned.steps[k].qualityBefore = qualityHistory[k]
              /\ returned.steps[k].qualityAfter = qualityHistory[k + 1]

C17_Witness ==
    /\ refinement.phase = "returned"
    /\ NeverReached
    /\ refinement.config.maxIterations = MaxIterationsArg
    /\ Len(returned.steps) = MaxIterationsArg
    /\ returned.quality.overall # qualityHistory[1].overall

\* C18: if no technique is applicable to the current quality at the start of
\* an iteration, refineImage stops at once: nothing more is applied,
\* recorded or assessed, and the result carries the current quality and the
\* steps recorded so far.
C18_StopsWithoutTechnique ==
    /\ refinement.phase = "assessing" => HasApplicable(refinement.currentQuality)
    /\ /\ refinement.phase = "returned"
       /\ LoopGoesOn(refinement)
       /\ ~HasApplicable(refinement.currentQuality)
       => /\ returned.quality = refinement.currentQuality
          /\ returned.steps = refinement.steps
          /\ Len(refinement.steps) = refinement.iteration
          /\ refinement.applications = refinement.iteration
          /\ refinement.assessments = refinement.iteration + 1
          /\ Len(qualityHistory) = refinement.iteration + 1
          /\ qualityHistory[Len(qualityHistory)] = refinement.currentQuality

C18_Witness ==
    /\ refinement.phase = "returned"
    /\ LoopGoesOn(refinement)
    /\ ~HasApplicable(refinement.currentQuality)
    /\ refinement.iteration = 1
    /\ Len(returned.steps) = 1

\* C19: the technique applied in an iteration is the one selectBestTechnique
\* returns: an applicable technique of maximal score, (strength + 0.3 when
\* the sub-metric of its category is below 0.7) times the multiplier of the
\* strategy, the one registered first among those of the maximal score.
C19_AppliesFirstBestTechnique ==
    refinement.phase = "assessing" =>
        LET registry == initializeTechniques
            quality == refinement.currentQuality
            score(k) == TechniqueScore(registry[k], quality, refinement.config)
            applicable == {k \in 1..Len(registry) : applicability(registry[k], quality)}
        IN  \E k \in applicable :
               /\ refinement.techniquesUsed = <<registry[k].name>>
               /\ \A j \in applicable : score(j) <= score(k)
               /\ \A j \in applicable : j < k => score(j) < score(k)

C19_Witness ==
    /\ refinement.phase = "assessing"
    /\ refinement.currentQuality = getDefaultQualityMetrics
    /\ refinement.techniquesUsed = <<"Composition Balance">>
    /\ TechniqueScore(initializeTechniques[3], refinement.currentQuality, refinement.config)
         = TechniqueScore(initializeTechniques[5], refinement.currentQuality, refinement.config)

FailedAnswers == {answer \in BackendAnswers : answer.kind # "json"}

\* C20: when the assessment call fails, returns no content or returns
\* unparsable content, assessQuality yields the neutral metrics (overall and
\* every sub-score 0.5), and the refinement loop goes on with that value.
C20_FailedAssessmentIsNeutral ==
    [][ \A answer \in FailedAnswers :
           /\ assessQuality(answer) = Quality(50, 50, 50, 50, 50, 50, 50)
           /\ InitialAssessedWith(answer) =>
                 /\ refinement'.currentQuality = Quality(50, 50, 50, 50, 50, 50, 50)
                 /\ refinement'.phase = "assessing" <=> refinement.config.maxIterations > 0
           /\ AssessedWith(answer) =>
                 /\ refinement'.currentQuality = Quality(50, 50, 50, 50, 50, 50, 50)
                 /\ refinement'.steps[Len(refinement'.steps)].qualityAfter
                       = Quality(50, 50, 50, 50, 50, 50, 50)
                 /\ refinement'.phase = "assessing" <=>
                       /\ refinement.iteration + 1 < refinement.config.maxIterations
                       /\ 50 < refinement.config.qualityThreshold
                 /\ refinement'.phase = "returned" =>
                       returned'.quality = Quality(50, 50, 50, 50, 50, 50, 50) ]_vars

C20_Witness ==
    /\ refinement.phase = "assessing"
    /\ refinement.iteration = 1
    /\ refinement.steps[1].qualityBefore.overall = 80
    /\ refinement.steps[1].qualityAfter = getDefaultQualityMetrics
    /\ refinement.currentQuality = getDefaultQualityMetrics

(***************************************************************************)
(* Properties of the optimizer.                                            *)
(***************************************************************************)
\* C1: after stop() (and no start() since), no new optimization cycle begins
\* on a timer tick, and stop() leaves a cycle in flight to run on.
C1_StopPreventsNewCycles ==
    [][ /\ ~config.enableRealTimeOptimization => ~TimerTick
        /\ Stop => UNCHANGED <<cycles, isOptimizing>> ]_vars

\* C2: at most one runOptimizationCycle is in flight at any time, for every
\* interleaving of timer ticks, start() calls and force-optimization requests.
C2_AtMostOneCycleInFlight == Cardinality(DOMAIN cycles) <= 1

\* C30: for every sequence of initialize(), start() and stop() calls at most
\* one periodic optimization timer is active at any time.
C30_AtMostOneTimer == timers <= 1

\* C31: when several requests arrive before the first initialization has
\* completed, the optimizer is initialized exactly once: only one
\* initialize() call runs to completion and exactly one timer is started.
C31_InitializedOnce ==
    [][InitializeCompletes => ~zai /\ timers = 0 /\ timers' = 1]_vars

\* loop i of `detected` is executed before loop j: higher priority first,
\* detection order among equals
Precedes(detected, i, j) ==
    \/ detected[i].action.priority > detected[j].action.priority
    \/ /\ detected[i].action.priority = detected[j].action.priority
       /\ i < j

RankOf(detected, i) ==
    1 + Cardinality({j \in 1..Len(detected) : Precedes(detected, j, i)})

\* the ids of the first min(maxPerCycle, breaches) breaches in that order
ExpectedExecution(detected, maxPerCycle) ==
    [k \in 1..Min(maxPerCycle, Len(detected)) |->
        detected[CHOOSE i \in 1..Len(detected) : RankOf(detected, i) = k].id]

\* the loops of cycle number `no` among the results `results`, in the order
\* of their recording
RECURSIVE ExecutedIn(_, _)
ExecutedIn(results, no) ==
    IF results = <<>> THEN <<>>
    ELSE ExecutedIn(SubSeq(results, 1, Len(results) - 1), no)
         \o (IF results[Len(results)].loop[1] = no
             THEN <<results[Len(results)].loop>> ELSE <<>>)

\* C8: in every cycle the executed actions are the first
\* min(maxOptimizationsPerCycle, breaches) breaches by descending priority,
\* equal priorities in detection order; they are executed one after another
\* in that order, and when the cycle ends no other breach has been executed.
C8_ExecutesTopPriorityPrefix ==
    [][ \A no \in DOMAIN cycles :
            LET expected == ExpectedExecution(cycles[no].detected, cycles[no].maxPerCycle)
                before == ExecutedIn(recorded, no)
                after == ExecutedIn(recorded', no)
            IN  /\ Len(after) <= Len(before) + 1
                /\ Len(after) <= Len(expected)
                /\ after = SubSeq(expected, 1, Len(after))
                /\ no \notin DOMAIN cycles' => after = expected ]_vars

C8_Witness ==
    \E no \in DOMAIN cycles :
        LET cycle == cycles[no] IN
        /\ cycle.awaiting = "model"
        /\ cycle.maxPerCycle >= 2
        /\ Len(cycle.detected) > cycle.maxPerCycle
        /\ \E i, j \in 1..Len(cycle.detected) :
              /\ i < j
              /\ cycle.detected[i].action.priority = cycle.detected[j].action.priority
              /\ RankOf(cycle.detected, j) <= cycle.maxPerCycle
        /\ ExecutedIn(recorded, no) = ExpectedExecution(cycle.detected, cycle.maxPerCycle)

\* the execution of an optimization by cycle `no` throws in this step
ExecutionFails(no) ==
    /\ no \in DOMAIN cycles
    /\ cycles[no].awaiting = "timeout"
    /\ faults' = faults + 1

\* a cycle ends in this step: one in flight, or one that began in it
CycleEnds ==
    \/ \E no \in DOMAIN cycles : no \notin DOMAIN cycles'
    \/ cycleCount' # cycleCount /\ cycleCount' \notin DOMAIN cycles'

\* C9: a failed execution is stored as success = false, improvement = 0 for
\* its loop in the map and appended to the history; the remaining selected
\* actions of the cycle are still executed; and at the end of every cycle,
\* completed or failed, isOptimizing is reset.
C9_FailureRecordedCycleGoesOn ==
    [][ /\ \A no \in DOMAIN cycles :
              LET cycle == cycles[no]
                  feedbackLoop == cycle.optimizations[cycle.pos]
                  stored == optimizationHistory'[Len(optimizationHistory')]
              IN  /\ ExecutionFails(no) =>
                        /\ optimizationHistory' = Append(optimizationHistory, stored)
                        /\ stored.loop = feedbackLoop.id
                        /\ stored.success = FALSE
                        /\ stored.improvement = 0
                        /\ feedbackLoop.id \in DOMAIN feedbackLoops'
                        /\ feedbackLoops'[feedbackLoop.id].result = stored
                        /\ cycle.pos < Len(cycle.optimizations) =>
                              /\ no \in DOMAIN cycles'
                              /\ cycles'[no].awaiting = "timeout"
                              /\ cycles'[no].pos = cycle.pos + 1
                  /\ no \notin DOMAIN cycles' =>
                        Len(ExecutedIn(recorded', no)) = Len(cycle.optimizations)
        /\ CycleEnds => ~isOptimizing' ]_vars

C9_Witness ==
    /\ cycles = EmptyMap
    /\ ~isOptimizing
    /\ \E i, j \in 1..Len(optimizationHistory) :
          /\ i < j
          /\ ~optimizationHistory[i].success
          /\ optimizationHistory[i].improvement = 0
          /\ feedbackLoops[optimizationHistory[i].loop].result = optimizationHistory[i]
          /\ optimizationHistory[j].success
          /\ optimizationHistory[j].loop[1] = optimizationHistory[i].loop[1]

\* the last n elements of s (all of s when it is shorter)
LastN(s, n) == SubSeq(s, Max(1, Len(s) - n + 1), Len(s))

\* C10: optimizationHistory holds at most 100 results and always equals the
\* (up to) 100 most recently recorded results in chronological order, while
\* the map of feedback loops is not capped: one entry per executed loop id.
C10_HistoryIsLastHundred ==
    /\ Len(optimizationHistory) <= HistoryCap
    /\ optimizationHistory = LastN(recorded, HistoryCap)
    /\ DOMAIN feedbackLoops = {recorded[i].loop : i \in 1..Len(recorded)}
    /\ \A i \in 1..Len(recorded) : feedbackLoops[recorded[i].loop].result = recorded[i]

C10_Witness ==
    /\ Len(recorded) > HistoryCap + 1
    /\ Len(optimizationHistory) = HistoryCap
    /\ optimizationHistory[1] = recorded[Len(recorded) - HistoryCap + 1]
    /\ Cardinality(DOMAIN feedbackLoops) > HistoryCap + 1

\* C11: in every state of the optimizer, idle or with a cycle in flight, a
\* getStats() made directly after clearHistory() reports totalOptimizations,
\* metricsHistoryLength and activeFeedbackLoops 0 (so successRate and
\* averageImprovement 0), and clearHistory() leaves config and
\* predictionModel unchanged.
C11_StatsZeroAfterClear ==
    [][ ClearHistory =>
            /\ getStats'.totalOptimizations = 0
            /\ getStats'.successfulOptimizations = 0
            /\ getStats'.metricsHistoryLength = 0
            /\ getStats'.activeFeedbackLoops = 0
            /\ getStats'.successRate = Ratio(0, 1)
            /\ getStats'.averageImprovement = Ratio(0, 1)
            /\ getStats'.config = config
            /\ getStats'.predictionModel = predictionModel ]_vars

C11_Witness ==
    /\ getStats.totalOptimizations = 0
    /\ getStats.metricsHistoryLength = 0
    /\ getStats.activeFeedbackLoops = 0
    /\ getStats.predictionModel # Null
    /\ \E no \in DOMAIN cycles : cycles[no].pos > 1

(***************************************************************************)
(* SpecThresholds: evaluateMetric applied to every metric of the table     *)
(* (and one outside it) and every level; the previous evaluation of the    *)
(* same metric is kept for comparison.                                     *)
(***************************************************************************)
ProbeNames == MetricNames \cup {UnknownMetric}

ProbeType(metricName) ==
    IF \E c \in 1..Len(Categories) :
          \E i \in 1..Len(CategoryMetrics(Categories[c])) :
              CategoryMetrics(Categories[c])[i] = metricName
    THEN Categories[CHOOSE c \in 1..Len(Categories) :
              \E i \in 1..Len(CategoryMetrics(Categories[c])) :
                  CategoryMetrics(Categories[c])[i] = metricName]
    ELSE "performance"

InitThresholds ==
    /\ evalMetric \in ProbeNames
    /\ evalValue \in Levels
    /\ evalOutcome = evaluateMetric(evalMetric, evalValue, ProbeType(evalMetric), "probe", 0)
    /\ prevValue = evalValue
    /\ prevOutcome = evalOutcome
    /\ OptimizerConstructed
    /\ RefineIdle

\* evaluateMetric on another value of the same metric
EvaluateAgain ==
    \E v \in Levels :
        /\ prevValue' = evalValue
        /\ prevOutcome' = evalOutcome
        /\ evalValue' = v
        /\ evalOutcome' = evaluateMetric(evalMetric, v, ProbeType(evalMetric), "probe", 0)
        /\ UNCHANGED evalMetric
        /\ UNCHANGED <<optimizerVars, refineVars, fusionVars, requestVars>>

\* evaluateMetric on the same value of another metric
EvaluateOther ==
    \E m \in ProbeNames :
        /\ m # evalMetric
        /\ evalMetric' = m
        /\ evalOutcome' = evaluateMetric(m, evalValue, ProbeType(m), "probe", 0)
        /\ prevValue' = evalValue
        /\ prevOutcome' = evalOutcome'
        /\ UNCHANGED evalValue
        /\ UNCHANGED <<optimizerVars, refineVars, fusionVars, requestVars>>

NextThresholds == EvaluateAgain \/ EvaluateOther

SpecThresholds == InitThresholds /\ [][NextThresholds]_vars

\* severity order of the outcomes: none < medium < high < critical
SeverityRank(outcome) ==
    IF outcome = Null THEN 0
    ELSE CASE outcome.trigger.severity = "low"      -> 1
           [] outcome.trigger.severity = "medium"   -> 1
           [] outcome.trigger.severity = "high"     -> 2
           [] outcome.trigger.severity = "critical" -> 3

\* the metrics whose thresholds are written "high is bad" (critical > low > medium)
HighIsBad == {m \in ProbeNames : getThresholds(m).critical > getThresholds(m).medium}

\* C6: for every metric of the table, a value below the metric's critical
\* threshold yields a FeedbackLoop of severity 'critical', and a value at or
\* above its medium threshold yields no FeedbackLoop.
C6_CriticalBelowNoneAtMedium ==
    evalMetric \in MetricNames =>
        /\ evalValue < getThresholds(evalMetric).critical =>
              /\ evalOutcome # Null
              /\ evalOutcome.trigger.severity = "critical"
        /\ evalValue >= getThresholds(evalMetric).medium => evalOutcome = Null

\* C32: evaluateMetric assigns severity by a cascade: value < critical gives
\* 'critical' with threshold critical, else value < low gives 'high' with
\* threshold low, else value < medium gives 'medium' with threshold medium,
\* else no loop; so every loop has currentValue < threshold and no loop has
\* severity 'low'.
C32_SeverityByCascade ==
    LET thresholds == getThresholds(evalMetric)
        Is(severity, threshold) ==
            /\ evalOutcome # Null
            /\ evalOutcome.trigger.severity = severity
            /\ evalOutcome.trigger.threshold = threshold
            /\ evalOutcome.trigger.currentValue = evalValue
            /\ evalOutcome.trigger.metric = evalMetric
    IN  /\ evalValue < thresholds.critical => Is("critical", thresholds.critical)
        /\ evalValue >= thresholds.critical /\ evalValue < thresholds.low
              => Is("high", thresholds.low)
        /\ evalValue >= thresholds.critical /\ evalValue >= thresholds.low
              /\ evalValue < thresholds.medium
              => Is("medium", thresholds.medium)
        /\ evalValue >= thresholds.critical /\ evalValue >= thresholds.low
              /\ evalValue >= thresholds.medium
              => evalOutcome = Null
        /\ evalOutcome # Null =>
              /\ evalOutcome.trigger.currentValue < evalOutcome.trigger.threshold
              /\ evalOutcome.trigger.severity # "low"

\* a value at a threshold falls to the next rung: 'high' for a value equal
\* to the critical threshold, after a 'medium' for another value
C32_Witness ==
    /\ evalOutcome # Null
    /\ evalValue = getThresholds(evalMetric).critical
    /\ evalOutcome.trigger.severity = "high"
    /\ prevOutcome # Null
    /\ prevOutcome.trigger.severity = "medium"

\* C7: evaluation is direction-aware: for a 'high is bad' metric a larger
\* value never yields a less severe outcome than a smaller one, and for a
\* 'low is bad' metric a smaller value never yields a less severe outcome
\* than a larger one.
C7_DirectionAwareMonotone ==
    IF evalMetric \in HighIsBad
    THEN prevValue <= evalValue => SeverityRank(prevOutcome) <= SeverityRank(evalOutcome)
    ELSE prevValue <= evalValue => SeverityRank(prevOutcome) >= SeverityRank(evalOutcome)

====
